---- MODULE Spec2Model ----
(***************************************************************************)
(* Remote file procedure call (YukunJ/Remote-File-Procedure-Call).         *)
(*                                                                         *)
(* Bytes are naturals 0..255, C strings and buffers are sequences of       *)
(* bytes.  A buffer obtained from calloc is a sequence of NUL bytes of the *)
(* allocated length; a C-string function stops at the first NUL.           *)
(***************************************************************************)
EXTENDS Integers, Sequences, FiniteSets, TLC

VARIABLES
    mode,          \* which harness drives the code under study
    msgs,          \* the payloads handed to send_message, in order
    storage_buf,   \* service()/wait_response(): the receive buffer's memory
    storage_size,  \* service()/wait_response(): bytes of storage_buf in use
    extracted,     \* the messages parse_message has returned, in order
    last,          \* what the latest call of parse_message saw and returned
                   \* (calls: how many calls the framer's harness has made)
    wire,          \* bytes written by the sender that have not arrived yet
    sock,          \* bytes that arrived in the socket and were not read yet
    obj,           \* the rpc_request, rpc_response or dirtreenode to marshal
    stream,        \* the char buffer the serializer filled
    decoded,       \* what the deserializer built from stream
    client,        \* the interposed process: its stub call, its static
                   \* storage_buf / storage_size, what the call gave back
    server,        \* the worker of the client's connection: its buffer, and
                   \* the system calls it made for the client's current call
                   \* (exec), each with the response bytes that were in the
                   \* connection (queued) and that its own pass had written
                   \* (before) when it was made (unread)
    kernel,        \* the worker's descriptor table and the server's files
    to_server,     \* bytes the stub sent that the worker has not read yet
    to_client      \* bytes the worker sent that the stub has not read yet

frameVars == <<msgs, storage_buf, storage_size, extracted, last, wire, sock>>
codecVars == <<obj, stream, decoded>>
sysVars == <<client, server, kernel, to_server, to_client>>
vars == <<mode, frameVars, codecVars, sysVars>>

----------------------------------------------------------------------------
(* Bounds of the model *)

\* capacity of a receive buffer, scaled down from 1024 * 1024
STORAGE_SIZE == 128
\* how many envelopes are concatenated in one buffer
MaxMsgs == 2
\* how many parameter or return slots a marshalled struct has at most
MaxSlots == 2
\* how many nodes a directory tree has at most
MaxNodes == 4

----------------------------------------------------------------------------
(* Characters and the protocol's string constants *)

NUL == <<0>>
COLON == <<58>>
CRLF == <<13, 10>>
HEADER_SPLIT == <<13, 10, 13, 10>>
HEADER_MSG_LEN == <<77, 101, 115, 115, 97, 103, 101, 45, 76, 101, 110, 103, 116, 104>>

IsDigit(c) == c >= 48 /\ c <= 57
IsSpace(c) == c = 32 \/ (c >= 9 /\ c <= 13)

Min(S) == CHOOSE x \in S : \A y \in S : x <= y

\* the bytes s[a..b] (empty when b < a)
Slice(s, a, b) == [i \in 1..(b - a + 1) |-> s[a + i - 1]]

RECURSIVE Concat(_)
Concat(ss) == IF ss = <<>> THEN <<>> ELSE Head(ss) \o Concat(Tail(ss))

\* n NUL bytes: calloc(n, 1) or memset(p, 0, n)
Zeros(n) == [i \in 1..n |-> 0]

----------------------------------------------------------------------------
(* libc: printf conversions, atoi, strstr *)

RECURSIVE Utoa(_)
\* "%zu", and the digits of "%d" / "%ld"
Utoa(n) == IF n < 10 THEN <<48 + n>> ELSE Utoa(n \div 10) \o <<48 + (n % 10)>>

\* "%d" / "%ld"
Itoa(n) == IF n < 0 THEN <<45>> \o Utoa(0 - n) ELSE Utoa(n)

\* the C string that starts at s[from]: up to, not including, the first NUL
CStrEnd(s, from) ==
    LET nuls == {i \in from..Len(s) : s[i] = 0}
    IN  IF nuls = {} THEN Len(s) + 1 ELSE Min(nuls)

RECURSIVE DigitsValue(_, _, _)
\* the value of the run of digits of s that starts at i, after accumulator acc
DigitsValue(s, i, acc) ==
    IF i <= Len(s) /\ IsDigit(s[i])
    THEN DigitsValue(s, i + 1, acc * 10 + (s[i] - 48))
    ELSE acc

RECURSIVE SkipSpace(_, _)
SkipSpace(s, i) == IF i <= Len(s) /\ IsSpace(s[i]) THEN SkipSpace(s, i + 1) ELSE i

\* atoi / atol on the C string s: white space, an optional sign, then digits;
\* 0 when no digit follows.  (All values of the model are within int.)
Atoi(s) ==
    LET t == Slice(s, 1, CStrEnd(s, 1) - 1)
        i == SkipSpace(t, 1)
        neg == i <= Len(t) /\ t[i] = 45
        j == IF i <= Len(t) /\ (t[i] = 45 \/ t[i] = 43) THEN i + 1 ELSE i
    IN  IF neg THEN 0 - DigitsValue(t, j, 0) ELSE DigitsValue(t, j, 0)

\* strstr(s + from - 1, pat): the index of the first occurrence of pat in the
\* C string that starts at s[from], 0 for NULL
StrStr(s, from, pat) ==
    LET e == CStrEnd(s, from)
        hits == {i \in from..(e - Len(pat)) :
                    \A j \in 1..Len(pat) : s[i + j - 1] = pat[j]}
    IN  IF hits = {} THEN 0 ELSE Min(hits)

----------------------------------------------------------------------------
(* socket.c: the envelope *)

\* send_message: the bytes handed to robust_write
Envelope(payload) ==
    HEADER_MSG_LEN \o COLON \o Utoa(Len(payload)) \o HEADER_SPLIT \o payload

\* MessageComplete with > for >=: a message that ends the buffer is not taken
MessageComplete_strict(buf_size, header_len, message_len) ==
    message_len >= 0 /\ buf_size > header_len + Len(HEADER_SPLIT) + message_len

\* MessageComplete that forgets the payload: the header alone is enough
MessageComplete_header(buf_size, header_len, message_len) ==
    message_len >= 0 /\ buf_size >= header_len + Len(HEADER_SPLIT)

\* parse_message: "this buffer fully contains this message".  A negative
\* atoi result converts to a huge size_t, which no buffer size reaches.
MessageComplete(buf_size, header_len, message_len) ==
    message_len >= 0 /\ buf_size >= header_len + Len(HEADER_SPLIT) + message_len

\* what parse_message returns when no full message is in the buffer
NoMessage(buf, buf_size) ==
    [found |-> FALSE, message |-> <<>>, buf |-> buf, size |-> buf_size]

\* parse_message(buf, &buf_size): the message (found) or NULL (not found),
\* and the buffer and its size as the call leaves them
parse_message(buf, buf_size) ==
    LET split_pos == StrStr(buf, 1, HEADER_SPLIT)
        colon_pos == StrStr(buf, 1, COLON)
    IN  IF split_pos = 0 THEN NoMessage(buf, buf_size)
        ELSE IF ~(colon_pos # 0 /\ colon_pos < split_pos) THEN NoMessage(buf, buf_size)
        ELSE
          LET header_len == split_pos - 1
              message_len == Atoi(Slice(buf, colon_pos + 1, split_pos - 1))
              message_begin == split_pos + Len(HEADER_SPLIT)
              message_end == message_begin + message_len
              new_buf_size == buf_size - (message_end - 1)
          IN  IF MessageComplete(buf_size, header_len, message_len)
              THEN [found |-> TRUE,
                    message |-> Slice(buf, message_begin, message_end - 1),
                    buf |-> [i \in 1..Len(buf) |->
                               IF i <= new_buf_size THEN buf[i + message_end - 1]
                               ELSE IF i <= buf_size THEN 0
                               ELSE buf[i]],
                    size |-> new_buf_size]
              ELSE NoMessage(buf, buf_size)

\* a calloc'ed receive buffer of STORAGE_SIZE + 1 bytes that holds `bytes`
Mem(bytes) == bytes \o Zeros(STORAGE_SIZE + 1 - Len(bytes))

----------------------------------------------------------------------------
(* The framer alone: a buffer that holds whole envelopes, or the proper    *)
(* prefix of one, and parse_message called on it again and again.          *)

\* payloads the senders hand to send_message: empty, NUL, ':', CR, LF, CR LF,
\* the header separator itself, a text with a header's shape, and a payload
\* that is itself an envelope
Payloads ==
    { <<>>, NUL, COLON, <<13>>, <<10>>, CRLF, HEADER_SPLIT, <<97, 58, 49>>,
      HEADER_MSG_LEN \o COLON \o <<49>> \o HEADER_SPLIT \o <<98>> }

Envelopes(ms) == Concat([i \in 1..Len(ms) |-> Envelope(ms[i])])

NoCall == [calls |-> 0, found |-> FALSE, message |-> <<>>,
           before_buf |-> <<>>, before_size |-> 0]

\* no struct is being marshalled
NoObj == [kind |-> "none"]

\* no client and no worker run
NoProc == [pc |-> "none"]

SystemIdle ==
    /\ client = NoProc
    /\ server = NoProc
    /\ kernel = NoProc
    /\ to_server = <<>>
    /\ to_client = <<>>

CodecIdle == obj = NoObj /\ stream = <<>> /\ decoded = NoObj

InitFrame ==
    /\ CodecIdle
    /\ SystemIdle
    /\ extracted = <<>>
    /\ last = NoCall
    /\ wire = <<>>
    /\ sock = <<>>
    /\ \/ /\ mode = "concat"
          /\ \E k \in 1..MaxMsgs : \E ms \in [1..k -> Payloads] :
                /\ Len(Envelopes(ms)) <= STORAGE_SIZE
                /\ msgs = ms
                /\ storage_buf = Mem(Envelopes(ms))
                /\ storage_size = Len(Envelopes(ms))
       \/ /\ mode = "prefix"
          /\ \E m \in Payloads : \E cut \in 0..(Len(Envelope(m)) - 1) :
                /\ msgs = <<m>>
                /\ storage_buf = Mem(SubSeq(Envelope(m), 1, cut))
                /\ storage_size = cut

\* one call of parse_message(storage_buf, &storage_size)
ParseCall ==
    /\ mode \in {"concat", "prefix"}
    /\ last.calls <= Len(msgs)
    /\ LET r == parse_message(storage_buf, storage_size)
       IN  /\ storage_buf' = r.buf
           /\ storage_size' = r.size
           /\ extracted' = IF r.found THEN Append(extracted, r.message) ELSE extracted
           /\ last' = [calls |-> last.calls + 1, found |-> r.found,
                       message |-> r.message,
                       before_buf |-> storage_buf, before_size |-> storage_size]
    /\ UNCHANGED <<mode, msgs, wire, sock, codecVars, sysVars>>

NextFrame == ParseCall

SpecFrame == InitFrame /\ [][NextFrame]_vars

\* C1: with the buffer holding E(M1)..E(Mk), the n-th call of parse_message
\* returns Mn, leaves exactly the envelopes after the n-th in the buffer, and
\* after the k-th call the buffer length is 0.
C1_ConcatExtractsInOrder ==
    mode = "concat" =>
      LET k == Len(msgs)
          n == IF last.calls < k THEN last.calls ELSE k
          rest == Envelopes(SubSeq(msgs, n + 1, k))
      IN  /\ extracted = SubSeq(msgs, 1, n)
          /\ (last.calls \in 1..k => last.found /\ last.message = msgs[last.calls])
          /\ storage_buf = Mem(rest)
          /\ storage_size = Len(rest)
          /\ (last.calls >= k => storage_size = 0)

\* two envelopes, the first with the header separator as its payload, both
\* taken out
C1_Witness ==
    /\ mode = "concat"
    /\ Len(msgs) = 2
    /\ msgs[1] = HEADER_SPLIT
    /\ msgs[2] = COLON
    /\ last.calls = 2
    /\ extracted = msgs
    /\ storage_size = 0

\* C2: on a proper prefix of one envelope parse_message returns no message
\* and leaves the buffer's bytes and its length as they were.
C2_PrefixLeavesBuffer ==
    (mode = "prefix" /\ last.calls > 0) =>
      /\ ~last.found
      /\ extracted = <<>>
      /\ storage_buf = last.before_buf
      /\ storage_size = last.before_size
      /\ storage_buf = Mem(SubSeq(Envelope(msgs[1]), 1, storage_size))

\* the cut is inside a payload that holds the header separator
C2_Witness ==
    /\ mode = "prefix"
    /\ last.calls > 0
    /\ msgs[1] = HEADER_SPLIT
    /\ storage_size = Len(Envelope(msgs[1])) - 1

----------------------------------------------------------------------------
(* socket.c greedy_read, and the two receive loops: server.c service and   *)
(* the stub's wait_response                                                *)

\* greedy_read(fd, buf_start, buf_size, &exit) on a non-blocking socket whose
\* receive queue holds `avail`: recv until buf_size bytes are in, or the queue
\* is empty (EAGAIN; EINTR is tried again), or the peer has closed (recv
\* returns 0 once the queue is empty: exit)
greedy_read(avail, buf_size, peer_closed) ==
    LET n == IF Len(avail) < buf_size THEN Len(avail) ELSE buf_size
    IN  [read |-> n,
         data |-> SubSeq(avail, 1, n),
         rest |-> SubSeq(avail, n + 1, Len(avail)),
         exit |-> n < buf_size /\ n = Len(avail) /\ peer_closed]

\* recv's writes to buf + at: memory `buf` with `data` stored from index at + 1
Store(buf, at, data) ==
    [i \in 1..Len(buf) |->
        IF i > at /\ i <= at + Len(data) THEN data[i - at] ELSE buf[i]]

\* service / wait_response: "read >= 0 && storage_size + read < STORAGE_SIZE",
\* the test that decides whether the bytes just read are counted
AcceptRead(size, read) == read >= 0 /\ size + read < STORAGE_SIZE

RECURSIVE DrainMessages(_, _, _)
\* service: while ((message = parse_message(storage_buf, &storage_size)) != NULL);
\* the messages taken out after `got`, the buffer left, and the calls made
DrainMessages(buf, size, got) ==
    LET r == parse_message(buf, size)
    IN  IF r.found
        THEN DrainMessages(r.buf, r.size, Append(got, r.message))
        ELSE [messages |-> got, buf |-> buf, size |-> size]

\* payloads whose envelope is one byte short of the buffer, and fills it
LargePayloads ==
    { [i \in 1..n |-> 120] : n \in
        { n \in 0..STORAGE_SIZE :
            Len(HEADER_MSG_LEN \o COLON \o Utoa(n) \o HEADER_SPLIT) + n
              \in {STORAGE_SIZE - 1, STORAGE_SIZE} } }

InitLoop ==
    /\ CodecIdle
    /\ SystemIdle
    /\ mode \in {"service", "wait_response"}
    /\ \E m \in Payloads \cup LargePayloads :
          /\ msgs = <<m>>
          /\ wire = Envelope(m)
    /\ sock = <<>>
    /\ storage_buf = Zeros(STORAGE_SIZE + 1)
    /\ storage_size = 0
    /\ extracted = <<>>
    /\ last = NoCall

\* the connection carries the next n bytes to the receiver: a chunk boundary
\* may fall after any byte
Deliver ==
    /\ mode \in {"service", "wait_response"}
    /\ \E n \in 1..Len(wire) :
          /\ sock' = sock \o SubSeq(wire, 1, n)
          /\ wire' = SubSeq(wire, n + 1, Len(wire))
    /\ UNCHANGED <<mode, msgs, storage_buf, storage_size, extracted, last, codecVars, sysVars>>

\* one pass of service's while (true) with bytes to read (a pass that reads
\* nothing and finds no message changes nothing)
ServiceIter ==
    /\ mode = "service"
    /\ sock # <<>>
    /\ LET r == greedy_read(sock, STORAGE_SIZE - storage_size, FALSE)
           size == IF AcceptRead(storage_size, r.read)
                   THEN storage_size + r.read ELSE storage_size
           d == DrainMessages(Store(storage_buf, storage_size, r.data), size, <<>>)
       IN  /\ sock' = r.rest
           /\ storage_buf' = d.buf
           /\ storage_size' = d.size
           /\ extracted' = extracted \o d.messages
           /\ last' = [last EXCEPT !.found = FALSE, !.message = <<>>,
                                   !.before_buf = d.buf, !.before_size = d.size]
    /\ UNCHANGED <<mode, msgs, wire, codecVars, sysVars>>

\* one pass of wait_response's while (message == NULL) with bytes to read; the
\* loop ends when parse_message returns a message
WaitResponseIter ==
    /\ mode = "wait_response"
    /\ ~last.found
    /\ sock # <<>>
    /\ LET r == greedy_read(sock, STORAGE_SIZE - storage_size, FALSE)
           size == IF AcceptRead(storage_size, r.read)
                   THEN storage_size + r.read ELSE storage_size
           buf == Store(storage_buf, storage_size, r.data)
           p == parse_message(buf, size)
       IN  /\ sock' = r.rest
           /\ storage_buf' = p.buf
           /\ storage_size' = p.size
           /\ extracted' = IF p.found THEN Append(extracted, p.message) ELSE extracted
           /\ last' = [last EXCEPT !.found = p.found, !.message = p.message,
                                   !.before_buf = buf, !.before_size = size]
    /\ UNCHANGED <<mode, msgs, wire, codecVars, sysVars>>

NextLoop == Deliver \/ ServiceIter \/ WaitResponseIter

SpecLoop == InitLoop /\ [][NextLoop]_vars

\* C3: the bytes of one envelope E(M) reach a receive loop in chunks cut at
\* arbitrary byte boundaries: no message is extracted while bytes of the
\* envelope are still to be read, and once the last chunk has been read the
\* loop has extracted exactly M, exactly once.
C3_ChunkedEnvelopeExtractedOnce ==
    mode \in {"service", "wait_response"} =>
      /\ (wire # <<>> \/ sock # <<>>) => extracted = <<>>
      /\ (wire = <<>> /\ sock = <<>>) => extracted = msgs

----------------------------------------------------------------------------
(* marshall.c: rpc_request and rpc_response                                *)

HEADER_COMMAND == <<67, 111, 109, 109, 97, 110, 100>>
HEADER_PARAM_NUM == <<80, 97, 114, 97, 109, 78, 117, 109>>
HEADER_ERRNO == <<69, 114, 114, 110, 111>>
HEADER_RETURN_NUM == <<82, 101, 116, 117, 114, 110, 78, 117, 109>>
LINE_SPLIT == <<13, 10>>

\* init_request(command_op, param_num): the arrays come from calloc
init_request(command_op, param_num) ==
    [kind |-> "request", command_op |-> command_op, param_num |-> param_num,
     param_sizes |-> Zeros(param_num), params |-> [i \in 1..param_num |-> <<>>]]

\* pack_pointer(request, offset, buf, buf_size), offset counted from 0
pack_pointer(request, offset, buf, buf_size) ==
    [request EXCEPT !.param_sizes[offset + 1] = buf_size,
                    !.params[offset + 1] = SubSeq(buf, 1, buf_size)]

\* pack_integral(request, offset, val): the decimal text of val
pack_integral(request, offset, val) ==
    [request EXCEPT !.param_sizes[offset + 1] = Len(Itoa(val)),
                    !.params[offset + 1] = Itoa(val)]

\* init_response that leaves the errno field zero
init_response_zero(errno_num, return_num) ==
    [kind |-> "response", errno_num |-> 0, return_num |-> return_num,
     return_sizes |-> Zeros(return_num), return_vals |-> [i \in 1..return_num |-> <<>>]]

\* init_response(errno_num, return_num)
init_response(errno_num, return_num) ==
    [kind |-> "response", errno_num |-> errno_num, return_num |-> return_num,
     return_sizes |-> Zeros(return_num), return_vals |-> [i \in 1..return_num |-> <<>>]]

\* marshall_pointer(response, offset, buf, buf_size)
marshall_pointer(response, offset, buf, buf_size) ==
    [response EXCEPT !.return_sizes[offset + 1] = buf_size,
                     !.return_vals[offset + 1] = SubSeq(buf, 1, buf_size)]

\* marshall_integral(response, offset, val)
marshall_integral(response, offset, val) ==
    [response EXCEPT !.return_sizes[offset + 1] = Len(Itoa(val)),
                     !.return_vals[offset + 1] = Itoa(val)]

\* sprintf(temp_buf, "%s%s%d%s", header, COLON, val, LINE_SPLIT)
HeaderLine(header, val) == header \o COLON \o Itoa(val) \o LINE_SPLIT

RECURSIVE SerializeSlots(_, _, _, _)
\* the for loop of serialize_request / serialize_response from `offset` on:
\* per slot a size line, then exactly size bytes and a line splitter
SerializeSlots(num, sizes, vals, offset) ==
    IF offset >= num THEN <<>>
    ELSE Utoa(sizes[offset + 1]) \o LINE_SPLIT
           \o SubSeq(vals[offset + 1], 1, sizes[offset + 1]) \o LINE_SPLIT
           \o SerializeSlots(num, sizes, vals, offset + 1)

\* the C string at the start of s
CStr(s) == SubSeq(s, 1, CStrEnd(s, 1) - 1)

\* serialize_request that takes each param's size from strlen, as for a text
serialize_request_strlen(request) ==
    HeaderLine(HEADER_COMMAND, request.command_op)
      \o HeaderLine(HEADER_PARAM_NUM, request.param_num)
      \o SerializeSlots(request.param_num,
                        [i \in 1..Len(request.params) |-> Len(CStr(request.params[i]))],
                        request.params, 0)

\* serialize_request(request, buf): the bytes written to buf
serialize_request(request) ==
    HeaderLine(HEADER_COMMAND, request.command_op)
      \o HeaderLine(HEADER_PARAM_NUM, request.param_num)
      \o SerializeSlots(request.param_num, request.param_sizes, request.params, 0)

\* serialize_response(response, buf): the bytes written to buf
serialize_response(response) ==
    HeaderLine(HEADER_ERRNO, response.errno_num)
      \o HeaderLine(HEADER_RETURN_NUM, response.return_num)
      \o SerializeSlots(response.return_num, response.return_sizes,
                        response.return_vals, 0)

\* sscanf(text, "%d", &v) / sscanf(text, "%zu", &v): white space, an optional
\* sign, digits; nothing is stored when no digit is found
ScanInt(text) ==
    LET t == CStr(text)
        i == SkipSpace(t, 1)
        neg == i <= Len(t) /\ t[i] = 45
        j == IF i <= Len(t) /\ (t[i] = 45 \/ t[i] = 43) THEN i + 1 ELSE i
        v == DigitsValue(t, j, 0)
    IN  [matched |-> j <= Len(t) /\ IsDigit(t[j]),
         value |-> IF neg THEN 0 - v ELSE v]

\* the "Header:value" line at buf[ptr]: strstr for the line end and the colon,
\* assert(colon < line_end), sscanf of the text between them.  fault: the
\* assert fails, a NULL pointer is used, or the field is left uninitialized.
HeaderValue(buf, ptr) ==
    LET line_end == StrStr(buf, ptr, LINE_SPLIT)
        colon == StrStr(buf, ptr, COLON)
    IN  IF line_end = 0 \/ colon = 0 \/ ~(colon < line_end)
        THEN [fault |-> TRUE, value |-> 0, next |-> ptr]
        ELSE LET sc == ScanInt(Slice(buf, colon + 1, line_end - 1))
             IN  [fault |-> ~sc.matched, value |-> sc.value,
                  next |-> line_end + Len(LINE_SPLIT)]

\* "buf_ptr += this_param_size; buf_ptr += strlen(LINE_SPLIT);"
SlotNext(start, size) == start + size + Len(LINE_SPLIT)

RECURSIVE DeserializeSlots(_, _, _, _, _)
\* the for loop of deserialize_request / deserialize_response with n slots
\* still to read from buf[ptr].  fault: strstr returns NULL, or the memcpy
\* reads past the end of buf.
DeserializeSlots(buf, ptr, n, sizes, vals) ==
    IF n <= 0 THEN [fault |-> FALSE, sizes |-> sizes, vals |-> vals]
    ELSE
      LET line_end == StrStr(buf, ptr, LINE_SPLIT)
      IN  IF line_end = 0 THEN [fault |-> TRUE, sizes |-> sizes, vals |-> vals]
          ELSE
            LET sc == ScanInt(Slice(buf, ptr, line_end - 1))
                size == IF sc.matched THEN sc.value ELSE 0
                start == line_end + Len(LINE_SPLIT)
            IN  IF size < 0 \/ start + size - 1 > Len(buf)
                THEN [fault |-> TRUE, sizes |-> sizes, vals |-> vals]
                ELSE DeserializeSlots(buf, SlotNext(start, size), n - 1,
                                      Append(sizes, size),
                                      Append(vals, Slice(buf, start, start + size - 1)))

\* deserialize_request(buf), buf a NUL-terminated message
deserialize_request(buf) ==
    LET op == HeaderValue(buf, 1)
        num == HeaderValue(buf, op.next)
        slots == DeserializeSlots(buf, num.next, num.value, <<>>, <<>>)
    IN  IF op.fault \/ num.fault \/ slots.fault
        THEN [kind |-> "request", fault |-> TRUE]
        ELSE [kind |-> "request", fault |-> FALSE,
              command_op |-> op.value, param_num |-> num.value,
              param_sizes |-> slots.sizes, params |-> slots.vals]

\* deserialize_response that looks for the ReturnNum line from the start of
\* buf again, and so reads the Errno line twice
deserialize_response_rescan(buf) ==
    LET err == HeaderValue(buf, 1)
        num == HeaderValue(buf, 1)
        slots == DeserializeSlots(buf, num.next, num.value, <<>>, <<>>)
    IN  IF err.fault \/ num.fault \/ slots.fault
        THEN [kind |-> "response", fault |-> TRUE]
        ELSE [kind |-> "response", fault |-> FALSE,
              errno_num |-> err.value, return_num |-> num.value,
              return_sizes |-> slots.sizes, return_vals |-> slots.vals]

\* deserialize_response(buf), buf a NUL-terminated message
deserialize_response(buf) ==
    LET err == HeaderValue(buf, 1)
        num == HeaderValue(buf, err.next)
        slots == DeserializeSlots(buf, num.next, num.value, <<>>, <<>>)
    IN  IF err.fault \/ num.fault \/ slots.fault
        THEN [kind |-> "response", fault |-> TRUE]
        ELSE [kind |-> "response", fault |-> FALSE,
              errno_num |-> err.value, return_num |-> num.value,
              return_sizes |-> slots.sizes, return_vals |-> slots.vals]

----------------------------------------------------------------------------
(* The codec alone: a struct is built, serialized into a zeroed buffer and *)
(* deserialized from it.                                                   *)

\* slot contents: empty, CR, LF, ':', CR LF, NUL, a number, and bytes with the
\* shape of a size line followed by data
Slots ==
    { <<>>, <<13>>, <<10>>, COLON, CRLF, NUL, <<49, 50>>, <<49, 13, 10, 97>> }

SlotLists == UNION { [1..n -> Slots] : n \in 0..MaxSlots }

RECURSIVE PackAll(_, _, _)
\* pack_pointer for every slot of `slots` from offset on
PackAll(request, slots, offset) ==
    IF offset >= Len(slots) THEN request
    ELSE PackAll(pack_pointer(request, offset, slots[offset + 1],
                              Len(slots[offset + 1])), slots, offset + 1)

RECURSIVE MarshallAll(_, _, _)
\* marshall_pointer for every slot of `slots` from offset on
MarshallAll(response, slots, offset) ==
    IF offset >= Len(slots) THEN response
    ELSE MarshallAll(marshall_pointer(response, offset, slots[offset + 1],
                                      Len(slots[offset + 1])), slots, offset + 1)

FrameIdle ==
    /\ msgs = <<>>
    /\ storage_buf = <<>>
    /\ storage_size = 0
    /\ extracted = <<>>
    /\ last = NoCall
    /\ wire = <<>>
    /\ sock = <<>>

InitCodec ==
    /\ FrameIdle
    /\ SystemIdle
    /\ stream = <<>>
    /\ decoded = NoObj
    /\ \/ /\ mode = "request"
          /\ \E op \in {0, 3, 8, 12} : \E slots \in SlotLists :
                obj = PackAll(init_request(op, Len(slots)), slots, 0)
       \/ /\ mode = "response"
          /\ \E err \in {0, 2, 13} : \E slots \in SlotLists :
                obj = MarshallAll(init_response(err, Len(slots)), slots, 0)

\* serialize_request / serialize_response into a zeroed buffer
Serialize ==
    /\ mode \in {"request", "response"}
    /\ stream = <<>>
    /\ stream' = IF mode = "request" THEN serialize_request(obj)
                 ELSE serialize_response(obj)
    /\ UNCHANGED <<mode, sysVars, frameVars, obj, decoded>>

\* deserialize_request / deserialize_response of the serialized bytes
Deserialize ==
    /\ mode \in {"request", "response"}
    /\ stream # <<>>
    /\ decoded = NoObj
    /\ decoded' = IF mode = "request" THEN deserialize_request(stream \o NUL)
                  ELSE deserialize_response(stream \o NUL)
    /\ UNCHANGED <<mode, sysVars, frameVars, obj, stream>>

NextCodec == Serialize \/ Deserialize

SpecCodec == InitCodec /\ [][NextCodec]_vars

\* C4: deserialize_request(serialize_request(R)) has R's opcode, R's number
\* of slots, and at every position R's slot length and R's slot bytes.
C4_RequestRoundTrip ==
    (mode = "request" /\ decoded # NoObj) =>
      /\ ~decoded.fault
      /\ decoded.command_op = obj.command_op
      /\ decoded.param_num = obj.param_num
      /\ Len(decoded.params) = obj.param_num
      /\ decoded.param_sizes = obj.param_sizes
      /\ decoded.params = obj.params

\* a request whose slots are a NUL byte and bytes shaped like a size line
C4_Witness ==
    /\ mode = "request"
    /\ decoded # NoObj
    /\ obj.command_op = 3
    /\ obj.params = <<NUL, <<49, 13, 10, 97>> >>
    /\ decoded.params = obj.params

\* C5: deserialize_response(serialize_response(P)) has P's errno, P's number
\* of return slots, and at every position P's slot length and P's slot bytes.
C5_ResponseRoundTrip ==
    (mode = "response" /\ decoded # NoObj) =>
      /\ ~decoded.fault
      /\ decoded.errno_num = obj.errno_num
      /\ decoded.return_num = obj.return_num
      /\ Len(decoded.return_vals) = obj.return_num
      /\ decoded.return_sizes = obj.return_sizes
      /\ decoded.return_vals = obj.return_vals

\* a failure response with an empty slot and a CR LF slot
C5_Witness ==
    /\ mode = "response"
    /\ decoded # NoObj
    /\ obj.errno_num = 13
    /\ obj.return_vals = << <<>>, CRLF >>
    /\ decoded.return_vals = obj.return_vals

----------------------------------------------------------------------------
(* marshall.c: struct dirtreenode { name, num_subdirs, subdirs }           *)

HEADER_TREE_NAME == <<78, 111, 100, 101, 78, 97, 109, 101>>
HEADER_TREE_CHILD_NUM == <<67, 104, 105, 108, 100, 78, 117, 109>>

RECURSIVE serialize_node_rev(_)
\* serialize_node whose loop over the children runs from the last to the first
serialize_node_rev(node) ==
    HEADER_TREE_NAME \o COLON \o CStr(node.name) \o LINE_SPLIT
      \o HeaderLine(HEADER_TREE_CHILD_NUM, node.num_subdirs)
      \o Concat([i \in 1..node.num_subdirs |->
                    serialize_node_rev(node.subdirs[node.num_subdirs + 1 - i])])

RECURSIVE serialize_node(_)
\* serialize_node(node, buf) for a non-NULL node: the bytes written to buf
serialize_node(node) ==
    HEADER_TREE_NAME \o COLON \o CStr(node.name) \o LINE_SPLIT
      \o HeaderLine(HEADER_TREE_CHILD_NUM, node.num_subdirs)
      \o Concat([i \in 1..node.num_subdirs |-> serialize_node(node.subdirs[i])])

\* serialize_dirtree(root, buf)
serialize_dirtree(root) == serialize_node(root)

\* NameColon that takes the last colon of the name line
NameColon_last(buf, ptr) ==
    LET line_end == StrStr(buf, ptr, LINE_SPLIT)
        colons == {i \in ptr..(line_end - 1) : buf[i] = COLON[1]}
    IN  IF colons = {} THEN 0 ELSE CHOOSE i \in colons : \A j \in colons : j <= i

\* deserialize_node: "colon = strstr(buf_ptr, COLON)" on the name line
NameColon(buf, ptr) == StrStr(buf, ptr, COLON)

RECURSIVE deserialize_node(_, _)
RECURSIVE DeserializeChildren(_, _, _, _)

\* the for loop of deserialize_node with n children still to read at buf[ptr]
DeserializeChildren(buf, ptr, n, kids) ==
    IF n <= 0 THEN [fault |-> FALSE, kids |-> kids, next |-> ptr]
    ELSE LET c == deserialize_node(buf, ptr)
         IN  IF c.fault THEN [fault |-> TRUE, kids |-> kids, next |-> ptr]
             ELSE DeserializeChildren(buf, c.next, n - 1, Append(kids, c.node))

\* deserialize_node(&buf): the node built from buf[ptr] on and the cursor
\* after it.  fault as in HeaderValue.
deserialize_node(buf, ptr) ==
    LET line_end == StrStr(buf, ptr, LINE_SPLIT)
        colon == NameColon(buf, ptr)
    IN  IF line_end = 0 \/ colon = 0 \/ ~(colon < line_end)
        THEN [fault |-> TRUE, next |-> ptr]
        ELSE
          LET name == CStr(Slice(buf, colon + 1, line_end - 1))
              num == HeaderValue(buf, line_end + Len(LINE_SPLIT))
          IN  IF num.fault THEN [fault |-> TRUE, next |-> ptr]
              ELSE
                LET ch == DeserializeChildren(buf, num.next, num.value, <<>>)
                IN  IF ch.fault THEN [fault |-> TRUE, next |-> ptr]
                    ELSE [fault |-> FALSE, next |-> ch.next,
                          node |-> [name |-> name, num_subdirs |-> num.value,
                                    subdirs |-> ch.kids]]

\* deserialize_dirtree(buf)
deserialize_dirtree(buf) ==
    LET r == deserialize_node(buf, 1)
    IN  IF r.fault THEN [kind |-> "dirtree", fault |-> TRUE]
        ELSE [kind |-> "dirtree", fault |-> FALSE, root |-> r.node]

----------------------------------------------------------------------------
(* The directory-tree codec alone *)

\* node names without CR LF: a letter, a name that starts with a colon, a lone CR
Names == { <<97>>, <<58, 98>>, <<13>> }

RECURSIVE TreesOf(_)
RECURSIVE ForestsOf(_)
\* the trees with exactly n nodes
TreesOf(n) ==
    { [name |-> nm, num_subdirs |-> Len(f), subdirs |-> f] :
        nm \in Names, f \in ForestsOf(n - 1) }
\* the sequences of trees with n nodes in all
ForestsOf(n) ==
    IF n = 0 THEN { <<>> }
    ELSE UNION { { <<t>> \o f : t \in TreesOf(j), f \in ForestsOf(n - j) } : j \in 1..n }

Trees == UNION { TreesOf(n) : n \in 1..MaxNodes }

InitTree ==
    /\ FrameIdle
    /\ SystemIdle
    /\ mode = "dirtree"
    /\ stream = <<>>
    /\ decoded = NoObj
    /\ \E t \in Trees : obj = [kind |-> "dirtree", root |-> t]

\* serialize_dirtree(root, tree_buf) into a zeroed buffer
SerializeTree ==
    /\ mode = "dirtree"
    /\ stream = <<>>
    /\ stream' = serialize_dirtree(obj.root)
    /\ UNCHANGED <<mode, sysVars, frameVars, obj, decoded>>

\* deserialize_dirtree of the serialized bytes
DeserializeTree ==
    /\ mode = "dirtree"
    /\ stream # <<>>
    /\ decoded = NoObj
    /\ decoded' = deserialize_dirtree(stream \o NUL)
    /\ UNCHANGED <<mode, sysVars, frameVars, obj, stream>>

NextTree == SerializeTree \/ DeserializeTree

SpecTree == InitTree /\ [][NextTree]_vars

\* C6: for a tree whose names hold no CR LF, deserialize_dirtree of
\* serialize_dirtree's output has the same names, child counts and child order.
C6_TreeRoundTrip ==
    (mode = "dirtree" /\ decoded # NoObj) =>
      /\ ~decoded.fault
      /\ decoded.root = obj.root

\* a root with two different children, one named with a ':'
C6_Witness ==
    /\ mode = "dirtree"
    /\ decoded # NoObj
    /\ obj.root.num_subdirs = 2
    /\ obj.root.subdirs[1].name = <<58, 98>>
    /\ obj.root.subdirs[2].name = <<97>>
    /\ decoded.root = obj.root

\* the nodes of tree t, each named by the path of child indexes that leads to it
RECURSIVE PathsOf(_)
PathsOf(t) ==
    { <<>> } \cup UNION { { <<i>> \o q : q \in PathsOf(t.subdirs[i]) } :
                            i \in 1..Len(t.subdirs) }

RECURSIVE NodeAt(_, _)
NodeAt(t, path) == IF path = <<>> THEN t ELSE NodeAt(t.subdirs[Head(path)], Tail(path))

\* path p comes before path q in depth-first pre-order: p is a proper prefix
\* of q, or p turns to an earlier child where they part
RECURSIVE Before(_, _)
Before(p, q) ==
    IF p = <<>> THEN q # <<>>
    ELSE IF q = <<>> THEN FALSE
    ELSE IF Head(p) # Head(q) THEN Head(p) < Head(q)
    ELSE Before(Tail(p), Tail(q))

\* the position of the node at path p in the pre-order of t, counted from 1
PreOrderRank(t, p) == Cardinality({ q \in PathsOf(t) : Before(q, p) }) + 1

RECURSIVE LinesOf(_, _)
\* the lines of s from index ptr on, each ended by CR LF
LinesOf(s, ptr) ==
    LET e == StrStr(s, ptr, LINE_SPLIT)
    IN  IF e = 0 THEN <<>>
        ELSE <<Slice(s, ptr, e - 1)>> \o LinesOf(s, e + Len(LINE_SPLIT))

\* C7: serialize_dirtree writes two lines per node, in depth-first pre-order:
\* the node at pre-order position r has its NodeName line as line 2r - 1 and
\* its ChildNum line, with its number of children, as line 2r; nothing else
\* is written, so a leaf adds only its own ChildNum:0.
C7_PreOrderLines ==
    (mode = "dirtree" /\ stream # <<>>) =>
      LET lines == LinesOf(stream, 1)
          paths == PathsOf(obj.root)
      IN  /\ Len(lines) = 2 * Cardinality(paths)
          /\ Len(Concat([i \in 1..Len(lines) |-> lines[i] \o LINE_SPLIT])) = Len(stream)
          /\ \A p \in paths :
               LET r == PreOrderRank(obj.root, p)
                   n == NodeAt(obj.root, p)
               IN  /\ lines[2 * r - 1] = HEADER_TREE_NAME \o COLON \o n.name
                   /\ lines[2 * r] =
                        HEADER_TREE_CHILD_NUM \o COLON \o Itoa(Len(n.subdirs))

\* a root whose first child has a child of its own and whose second child is
\* a leaf: the grandchild is written before the second child
C7_Witness ==
    /\ mode = "dirtree"
    /\ stream # <<>>
    /\ obj.root.num_subdirs = 2
    /\ obj.root.subdirs[1].num_subdirs = 1
    /\ obj.root.subdirs[1].subdirs[1].name = <<97>>
    /\ obj.root.subdirs[2].name = <<58, 98>>
    /\ obj.root.subdirs[2].num_subdirs = 0

----------------------------------------------------------------------------
(* One client process with the interposition library, its connection, and  *)
(* the worker that server.c forks for it                                   *)

\* how many interposed calls the client makes
MaxCalls == 3
\* the largest count / nbytes the client passes
MaxCount == 2
\* descriptors a process may hold (RLIMIT_NOFILE, scaled down)
NoFile == 6
\* sizeof(struct stat), scaled down
StatSize == 2

\* marshall.h
OPEN_OP == 0
CLOSE_OP == 1
READ_OP == 2
WRITE_OP == 3
LSEEK_OP == 4
STAT_OP == 5
UNLINK_OP == 6
GETDIRENTRIES_OP == 7
GETDIRTREE_OP == 8
FREEDIRTREE_OP == 9
OFFSET == 12345

\* errno values the server's system calls produce
ENOENT == 2
EBADF == 9
EMFILE == 24
EAGAIN == 11

\* the worker's socket: main's listener is descriptor 3, accept returns 4,
\* the child closes the listener
client_fd == 4

\* the operations that take a descriptor
FdOps == {CLOSE_OP, READ_OP, WRITE_OP, LSEEK_OP, GETDIRENTRIES_OP}

\* IsLocal with <= for <: OFFSET itself counts as a descriptor of the client
IsLocal_le(fd) == fd <= OFFSET

\* the stubs' "if (fd < OFFSET)": the descriptor is the client's own
IsLocal(fd) == fd < OFFSET

\* HandleOf that adds the offset to a failed open's -1 too
HandleOf_always(fd) == fd + OFFSET

\* serve_open: "if (fd != -1) { fd += OFFSET; }"
HandleOf(fd) == IF fd # -1 THEN fd + OFFSET ELSE fd

\* NativeFd that forgets to take the offset off
NativeFd_same(param) == Atoi(param)

\* serve_close, serve_read, ...: "atoi(request->params[0]) - OFFSET"
NativeFd(param) == Atoi(param) - OFFSET

\* no tree: a NULL struct dirtreenode pointer
NoTree == [kind |-> "null"]

----------------------------------------------------------------------------
(* The server's system calls.  Each operator gives the set of outcomes the *)
(* call may have on kernel state k: its result, errno as the call leaves   *)
(* it (the handlers set it to 0 first), the data it stores, the new state. *)
(* A kernel state is a process's open descriptors (fds), the file each was *)
(* opened on (of; no file for the standard streams and the socket), the    *)
(* file offset of each (pos), the paths that exist (files), and the tree   *)
(* the latest getdirtree of the process built (local_root).                *)

\* bytes a file or a directory stream may deliver: n bytes, text or NUL
FileData(n) == { [i \in 1..n |-> 120], [i \in 1..n |-> 0] }

\* the size of every file of the server
FileSize == 3

\* the bytes of the file at path: its name's first character, and CR LF at
\* the end
FileBytes(path) ==
    [i \in 1..FileSize |->
        IF i = FileSize THEN 10 ELSE IF i = FileSize - 1 THEN 13 ELSE path[1]]

\* what read(fd, buf, count) may deliver: of the file at a path, the bytes
\* from the descriptor's offset on, up to count and up to the end of the
\* file; of a stream or a socket, any number of bytes up to count
ReadData(k, fd, count) ==
    IF k.of[fd] = <<>> THEN UNION { FileData(n) : n \in 0..count }
    ELSE { SubSeq(FileBytes(k.of[fd]), k.pos[fd] + 1,
                  IF k.pos[fd] + count < FileSize THEN k.pos[fd] + count
                  ELSE FileSize) }

\* the state of a worker that main has just forked: the standard streams and
\* the client's socket are open
ForkedKernel(files) ==
    [fds |-> {0, 1, 2, client_fd}, files |-> files,
     of |-> [n \in 0..(NoFile - 1) |-> <<>>],
     pos |-> [n \in 0..(NoFile - 1) |-> 0], local_root |-> NoTree]

Outcome(ret, err, k) == [ret |-> ret, errno |-> err, kernel |-> k, data |-> <<>>]

\* open(path, flags, mode) for reading: the lowest free descriptor
sys_open(k, path) ==
    LET free == { n \in 0..(NoFile - 1) : n \notin k.fds }
    IN  IF path \notin k.files THEN { Outcome(-1, ENOENT, k) }
        ELSE IF free = {} THEN { Outcome(-1, EMFILE, k) }
        ELSE { Outcome(Min(free), 0, [k EXCEPT !.fds = @ \cup {Min(free)},
                                               !.of[Min(free)] = path,
                                               !.pos[Min(free)] = 0]) }

\* close(fd)
sys_close(k, fd) ==
    IF fd \in k.fds
    THEN { Outcome(0, 0, [k EXCEPT !.fds = @ \ {fd}, !.of[fd] = <<>>,
                                   !.pos[fd] = 0]) }
    ELSE { Outcome(-1, EBADF, k) }

\* a read that leaves the descriptor's offset where it was
sys_read_still(k, fd, count) ==
    IF fd \in k.fds
    THEN { [Outcome(Len(d), 0, k) EXCEPT !.data = d] : d \in ReadData(k, fd, count) }
    ELSE { Outcome(-1, EBADF, k) }

\* read(fd, buf, count): up to count bytes, and the offset moves past them
sys_read(k, fd, count) ==
    IF fd \in k.fds
    THEN { [Outcome(Len(d), 0, [k EXCEPT !.pos[fd] = @ + Len(d)])
              EXCEPT !.data = d] :
              d \in ReadData(k, fd, count) }
    ELSE { Outcome(-1, EBADF, k) }

\* write(fd, buf, count): up to count bytes are taken
sys_write(k, fd, count) ==
    IF fd \in k.fds
    THEN { Outcome(n, 0, [k EXCEPT !.pos[fd] = @ + n]) : n \in 0..count }
    ELSE { Outcome(-1, EBADF, k) }

\* an lseek that moves the offset of every open descriptor
sys_lseek_every(k, fd, offset) ==
    IF fd \in k.fds
    THEN { Outcome(offset, 0, [k EXCEPT !.pos = [n \in DOMAIN k.pos |->
                                                  IF n \in k.fds THEN offset
                                                  ELSE k.pos[n]]]) }
    ELSE { Outcome(-1, EBADF, k) }

\* lseek(fd, offset, SEEK_SET)
sys_lseek(k, fd, offset) ==
    IF fd \in k.fds THEN { Outcome(offset, 0, [k EXCEPT !.pos[fd] = offset]) }
    ELSE { Outcome(-1, EBADF, k) }

\* stat(path, &statbuf): data is what the call stores in statbuf
sys_stat(k, path) ==
    IF path \in k.files
    THEN { [Outcome(0, 0, k) EXCEPT !.data = [i \in 1..StatSize |-> 120]] }
    ELSE { Outcome(-1, ENOENT, k) }

\* unlink(path)
sys_unlink(k, path) ==
    IF path \in k.files THEN { Outcome(0, 0, [k EXCEPT !.files = @ \ {path}]) }
    ELSE { Outcome(-1, ENOENT, k) }

\* getdirentries(fd, buf, nbytes, &basep): up to nbytes bytes of entries, and
\* the new position in basep
sys_getdirentries(k, fd, nbytes, basep) ==
    IF fd \in k.fds
    THEN { [ret |-> Len(d), errno |-> 0, kernel |-> k, data |-> d,
            basep |-> basep + Len(d)] :
              d \in UNION { FileData(n) : n \in 0..nbytes } }
    ELSE { [ret |-> -1, errno |-> EBADF, kernel |-> k, data |-> <<>>,
            basep |-> basep] }

\* a directory entry without entries of its own
Leaf(name) == [name |-> name, num_subdirs |-> 0, subdirs |-> <<>>]

\* the trees the server's file system may hold below path: nothing, two
\* entries, or an entry with an entry of its own
TreesAt(path) ==
    { Leaf(path),
      [name |-> path, num_subdirs |-> 2, subdirs |-> <<Leaf(<<99>>), Leaf(<<98>>)>>],
      [name |-> path, num_subdirs |-> 1,
       subdirs |-> <<[name |-> <<98>>, num_subdirs |-> 1,
                      subdirs |-> <<Leaf(<<99>>)>>]>>] }

\* getdirtree(path): the tree below path, NULL when there is no such path
sys_getdirtree(k, path) ==
    IF path \in k.files
    THEN { [errno |-> 0, kernel |-> [k EXCEPT !.local_root = t], tree |-> t] :
             t \in TreesAt(path) }
    ELSE { [errno |-> ENOENT, kernel |-> [k EXCEPT !.local_root = NoTree],
            tree |-> NoTree] }

----------------------------------------------------------------------------
(* server.c: the handlers.  Each gives the set of [kernel, response, exec]: *)
(* the kernel state after the system call, the rpc_response handed to      *)
(* send_response, and the system call made (operation, native descriptor,  *)
(* result; fd is -1 for a call that takes a path).                         *)

Served(op, fd, o, response) ==
    [kernel |-> o.kernel, response |-> response,
     exec |-> [op |-> op, fd |-> fd, ret |-> o.ret, errno |-> o.errno]]

serve_open(request, k) ==
    { Served(OPEN_OP, -1, o,
             marshall_integral(init_response(o.errno, 1), 0, HandleOf(o.ret))) :
        o \in sys_open(k, CStr(request.params[1])) }

\* a serve_close that answers 0 and leaves the descriptor open
serve_close_leak(request, k) ==
    { Served(CLOSE_OP, NativeFd(request.params[1]), Outcome(0, 0, k),
             marshall_integral(init_response(0, 1), 0, 0)) }

serve_close(request, k) ==
    LET fd == NativeFd(request.params[1])
    IN  { Served(CLOSE_OP, fd, o,
                 marshall_integral(init_response(o.errno, 1), 0, o.ret)) :
            o \in sys_close(k, fd) }

\* serve_read that marshals the result alone
serve_read_one(request, k) ==
    LET fd == NativeFd(request.params[1])
        count == Atoi(request.params[3])
    IN  { Served(READ_OP, fd, o,
                 marshall_integral(init_response(o.errno, 1), 0, o.ret)) :
            o \in sys_read(k, fd, count) }

serve_read(request, k) ==
    LET fd == NativeFd(request.params[1])
        count == Atoi(request.params[3])
    IN  { Served(READ_OP, fd, o,
                 marshall_pointer(
                     marshall_integral(init_response(o.errno, 2), 0, o.ret),
                     1, o.data \o Zeros(count + 1 - Len(o.data)),
                     IF o.ret >= 0 THEN o.ret ELSE 0)) :
            o \in sys_read(k, fd, count) }

serve_write(request, k) ==
    LET fd == NativeFd(request.params[1])
        count == Atoi(request.params[3])
    IN  { Served(WRITE_OP, fd, o,
                 marshall_integral(init_response(o.errno, 1), 0, o.ret)) :
            o \in sys_write(k, fd, count) }

serve_lseek(request, k) ==
    LET fd == NativeFd(request.params[1])
        offset == Atoi(request.params[2])
    IN  { Served(LSEEK_OP, fd, o,
                 marshall_integral(init_response(o.errno, 1), 0, o.ret)) :
            o \in sys_lseek(k, fd, offset) }

\* a serve_stat that leaves the stat buffer out when stat fails
serve_stat_short(request, k) ==
    { Served(STAT_OP, -1, o,
             IF o.ret < 0
             THEN marshall_integral(init_response(o.errno, 1), 0, o.ret)
             ELSE marshall_pointer(
                      marshall_integral(init_response(o.errno, 2), 0, o.ret),
                      1, o.data \o Zeros(StatSize - Len(o.data)), StatSize)) :
        o \in sys_stat(k, CStr(request.params[1])) }

serve_stat(request, k) ==
    { Served(STAT_OP, -1, o,
             marshall_pointer(
                 marshall_integral(init_response(o.errno, 2), 0, o.ret),
                 1, o.data \o Zeros(StatSize - Len(o.data)), StatSize)) :
        o \in sys_stat(k, CStr(request.params[1])) }

serve_unlink(request, k) ==
    { Served(UNLINK_OP, -1, o,
             marshall_integral(init_response(o.errno, 1), 0, o.ret)) :
        o \in sys_unlink(k, CStr(request.params[1])) }

serve_getdirentries(request, k) ==
    LET fd == NativeFd(request.params[1])
        nbytes == Atoi(request.params[2])
        basep == Atoi(request.params[3])
    IN  { Served(GETDIRENTRIES_OP, fd, o,
                 marshall_integral(
                     marshall_pointer(
                         marshall_integral(init_response(o.errno, 3), 0, o.ret),
                         1, o.data \o Zeros(nbytes + 1 - Len(o.data)),
                         IF o.ret >= 0 THEN o.ret ELSE 0),
                     2, o.basep)) :
            o \in sys_getdirentries(k, fd, nbytes, basep) }

serve_getdirtree(request, k) ==
    { LET tree_buf == IF o.tree # NoTree THEN serialize_dirtree(o.tree) ELSE <<>>
      IN  [kernel |-> o.kernel,
           response |-> marshall_pointer(init_response(o.errno, 1), 0,
                                         tree_buf, Len(tree_buf)),
           exec |-> [op |-> GETDIRTREE_OP, fd |-> -1,
                     ret |-> IF o.tree # NoTree THEN 0 ELSE -1,
                     errno |-> o.errno]] :
        o \in sys_getdirtree(k, CStr(request.params[1])) }

\* a default: branch that answers with an error response
NoReply_answer(k) ==
    [kernel |-> k, out |-> Envelope(serialize_response(init_response(EBADF, 0))),
     exec |-> <<>>]

\* what one message costs the worker: the outcomes of service's switch
NoReply(k) == [kernel |-> k, out |-> <<>>, exec |-> <<>>]

\* Reply of a handler that sends its response twice
Reply_twice(s) ==
    [kernel |-> s.kernel,
     out |-> Envelope(serialize_response(s.response))
               \o Envelope(serialize_response(s.response)),
     exec |-> <<s.exec>>]

Reply(s) ==
    [kernel |-> s.kernel, out |-> Envelope(serialize_response(s.response)),
     exec |-> <<s.exec>>]

\* service: the switch on request->command_op; an opcode that is not served
\* is printed and gets no response
Dispatch(request, k) ==
    LET op == request.command_op
    IN  CASE op = OPEN_OP -> { Reply(s) : s \in serve_open(request, k) }
          [] op = CLOSE_OP -> { Reply(s) : s \in serve_close(request, k) }
          [] op = READ_OP -> { Reply(s) : s \in serve_read(request, k) }
          [] op = WRITE_OP -> { Reply(s) : s \in serve_write(request, k) }
          [] op = LSEEK_OP -> { Reply(s) : s \in serve_lseek(request, k) }
          [] op = STAT_OP -> { Reply(s) : s \in serve_stat(request, k) }
          [] op = UNLINK_OP -> { Reply(s) : s \in serve_unlink(request, k) }
          [] op = GETDIRENTRIES_OP ->
                 { Reply(s) : s \in serve_getdirentries(request, k) }
          [] op = GETDIRTREE_OP -> { Reply(s) : s \in serve_getdirtree(request, k) }
          [] OTHER -> { NoReply(k) }

RECURSIVE ServeMessages(_, _, _, _, _)

\* the system calls `calls` of one handler, each with `before`: how many bytes
\* of responses this pass of the worker had written when the call was made
Called(calls, n) ==
    [i \in 1..Len(calls) |->
        [op |-> calls[i].op, fd |-> calls[i].fd, ret |-> calls[i].ret,
         errno |-> calls[i].errno, before |-> n]]

\* ServeRequest that leaves the request aside, goes on with the loop, and
\* serves the request after the messages behind it
ServeRequest_later(p, request, k, out, exec) ==
    UNION { { [r EXCEPT !.kernel = s.kernel, !.out = @ \o s.out,
                        !.exec = @ \o Called(s.exec, Len(r.out))] :
                s \in Dispatch(request, r.kernel) } :
              r \in ServeMessages(p.buf, p.size, k, out, exec) }

\* the body of service's inner loop for the message of p and the request
\* deserialize_request made of it; then the loop goes on.  A message that
\* deserialize_request cannot read stops the worker (a failed assert or a
\* wild pointer).
ServeRequest(p, request, k, out, exec) ==
    IF request.fault
    THEN { [buf |-> p.buf, size |-> p.size, kernel |-> k, out |-> out,
            exec |-> exec, crashed |-> TRUE] }
    ELSE UNION { ServeMessages(p.buf, p.size, s.kernel, out \o s.out,
                               exec \o Called(s.exec, Len(out))) :
                   s \in Dispatch(request, k) }

\* the inner loop's test on p, what parse_message returned
ServeParsed(p, k, out, exec) ==
    IF ~p.found
    THEN { [buf |-> p.buf, size |-> p.size, kernel |-> k, out |-> out,
            exec |-> exec, crashed |-> FALSE] }
    ELSE ServeRequest(p, deserialize_request(p.message \o NUL), k, out, exec)

\* service: while ((message = parse_message(storage_buf, &storage_size)) != NULL)
\* with its body: the outcomes of the loop from buffer (buf, size), kernel
\* state k, the bytes `out` already sent and the calls `exec` already made
ServeMessages(buf, size, k, out, exec) ==
    ServeParsed(parse_message(buf, size), k, out, exec)

\* one pass of service's while (true), with bytes to read or the client gone
Service ==
    /\ mode \in {"system", "worker"}
    /\ server.pc = "serving"
    /\ to_server # <<>> \/ client.pc = "exited"
    /\ \E r \in { greedy_read(to_server, STORAGE_SIZE - server.storage_size,
                              client.pc = "exited") } :
          \E s \in ServeMessages(
                     Store(server.storage_buf, server.storage_size, r.data),
                     IF AcceptRead(server.storage_size, r.read)
                     THEN server.storage_size + r.read ELSE server.storage_size,
                     kernel, <<>>, <<>>) :
             /\ to_server' = r.rest
             /\ to_client' = to_client \o s.out
             /\ kernel' = IF r.exit /\ ~s.crashed
                          THEN [s.kernel EXCEPT !.fds = @ \ {client_fd}]
                          ELSE s.kernel
             /\ server' = [server EXCEPT
                             !.pc = IF s.crashed THEN "crashed"
                                    ELSE IF r.exit THEN "done" ELSE "serving",
                             !.storage_buf = s.buf,
                             !.storage_size = s.size,
                             !.exec = @ \o [i \in 1..Len(s.exec) |->
                                              [op |-> s.exec[i].op,
                                               fd |-> s.exec[i].fd,
                                               ret |-> s.exec[i].ret,
                                               errno |-> s.exec[i].errno]],
                             !.unread = @ \o [i \in 1..Len(s.exec) |->
                                                [queued |-> Len(to_client),
                                                 before |-> s.exec[i].before]]]
    /\ UNCHANGED <<mode, frameVars, codecVars, client>>

----------------------------------------------------------------------------
(* mylib.c: the stubs                                                      *)

\* the paths the client names; the first exists on the server at the start
Paths == { <<97>>, <<98>> }

\* descriptors the client passes: its own (also the invalid -1 and the last
\* one below OFFSET), the handle OFFSET, and what open has returned to it
Fds == {-1, 0, OFFSET - 1, OFFSET} \cup { h[1] : h \in client.handles }

\* the count / nbytes / offset arguments the client passes
Counts == {0, MaxCount}

\* CanCall of a stub that does not wait for the response of the call before
CanCall_nowait ==
    /\ mode = "system"
    /\ client.pc \in {"idle", "returned", "waiting"}
    /\ client.calls < MaxCalls

\* the client is between two interposed calls: a stub returns only after
\* wait_response has returned (sent / consumed count the requests
\* send_request wrote and the responses wait_response took)
CanCall ==
    /\ mode = "system"
    /\ client.pc \in {"idle", "returned"}
    /\ client.calls < MaxCalls

\* send_request(server_fd, request), then wait_response up to its loop: the
\* request goes out as one envelope, the static buffer is cleared.  `buf` is
\* the caller's output buffer, `basep` the caller's *basep.
Remote(op, fd, request, buf, basep) ==
    /\ client' = [client EXCEPT
                    !.pc = "waiting", !.calls = @ + 1, !.op = op, !.fd = fd,
                    !.ret = 0, !.errno0 = client.errno, !.buf = buf,
                    !.basep = basep,
                    !.storage_buf = Zeros(STORAGE_SIZE + 1), !.storage_size = 0,
                    !.local = <<>>, !.sent = @ + 1,
                    !.wrote = Envelope(serialize_request(request))]
    /\ to_server' = to_server \o Envelope(serialize_request(request))
    /\ server' = [server EXCEPT !.exec = <<>>, !.unread = <<>>]
    /\ UNCHANGED <<mode, frameVars, codecVars, kernel, to_client>>

\* "return orig_close(fd);" and the like: the call is the client's own
\* system's, which this model does not look into: it succeeds or fails
Local(op, fd, buf, basep) ==
    /\ \E ok \in BOOLEAN :
         client' = [client EXCEPT
                      !.pc = "returned", !.calls = @ + 1, !.op = op, !.fd = fd,
                      !.ret = IF ok THEN 0 ELSE -1,
                      !.errno = IF ok THEN @ ELSE EBADF,
                      !.errno0 = client.errno,
                      !.buf = buf, !.basep = basep,
                      !.local = <<[op |-> op, fd |-> fd]>>,
                      !.wrote = <<>>]
    /\ server' = [server EXCEPT !.exec = <<>>, !.unread = <<>>]
    /\ UNCHANGED <<mode, frameVars, codecVars, kernel, to_server, to_client>>

\* open(pathname, O_RDONLY): always remote
Open ==
    /\ CanCall
    /\ \E pathname \in Paths :
         Remote(OPEN_OP, -1,
                pack_integral(
                    pack_integral(
                        pack_pointer(init_request(OPEN_OP, 3), 0, pathname,
                                     Len(CStr(pathname))),
                        1, 0),
                    2, 0),
                <<>>, 0)

Close ==
    /\ CanCall
    /\ \E fd \in Fds :
         IF IsLocal(fd) THEN Local(CLOSE_OP, fd, <<>>, 0)
         ELSE Remote(CLOSE_OP, fd,
                     pack_integral(init_request(CLOSE_OP, 1), 0, fd), <<>>, 0)

\* read(fd, buf, count): the caller's buffer, whatever it holds, goes out as
\* the second parameter
Read ==
    /\ CanCall
    /\ \E fd \in Fds : \E count \in Counts : \E buf \in {[i \in 1..count |-> 120]} :
         IF IsLocal(fd) THEN Local(READ_OP, fd, buf, 0)
         ELSE Remote(READ_OP, fd,
                     pack_integral(
                         pack_pointer(
                             pack_integral(init_request(READ_OP, 3), 0, fd),
                             1, buf, count),
                         2, count),
                     buf, 0)

Write ==
    /\ CanCall
    /\ \E fd \in Fds : \E count \in Counts : \E buf \in FileData(count) :
         IF IsLocal(fd) THEN Local(WRITE_OP, fd, buf, 0)
         ELSE Remote(WRITE_OP, fd,
                     pack_integral(
                         pack_pointer(
                             pack_integral(init_request(WRITE_OP, 3), 0, fd),
                             1, buf, count),
                         2, count),
                     buf, 0)

\* lseek(fd, offset, SEEK_SET)
Lseek ==
    /\ CanCall
    /\ \E fd \in Fds : \E offset \in Counts :
         IF IsLocal(fd) THEN Local(LSEEK_OP, fd, <<>>, 0)
         ELSE Remote(LSEEK_OP, fd,
                     pack_integral(
                         pack_integral(
                             pack_integral(init_request(LSEEK_OP, 3), 0, fd),
                             1, offset),
                         2, 0),
                     <<>>, 0)

\* stat(pathname, statbuf): always remote
Stat ==
    /\ CanCall
    /\ \E pathname \in Paths :
         Remote(STAT_OP, -1,
                pack_pointer(init_request(STAT_OP, 1), 0, pathname,
                             Len(CStr(pathname))),
                [i \in 1..StatSize |-> 121], 0)

\* unlink(pathname): always remote
Unlink ==
    /\ CanCall
    /\ \E pathname \in Paths :
         Remote(UNLINK_OP, -1,
                pack_pointer(init_request(UNLINK_OP, 1), 0, pathname,
                             Len(CStr(pathname))),
                <<>>, 0)

\* getdirentries(fd, buf, nbytes, basep)
Getdirentries ==
    /\ CanCall
    /\ \E fd \in Fds : \E nbytes \in Counts : \E basep \in {0, MaxCount} :
         IF IsLocal(fd) THEN Local(GETDIRENTRIES_OP, fd, Zeros(nbytes), basep)
         ELSE Remote(GETDIRENTRIES_OP, fd,
                     pack_integral(
                         pack_integral(
                             pack_integral(init_request(GETDIRENTRIES_OP, 3), 0, fd),
                             1, nbytes),
                         2, basep),
                     Zeros(nbytes), basep)

\* getdirtree(path): always remote
Getdirtree ==
    /\ CanCall
    /\ \E path \in Paths :
         Remote(GETDIRTREE_OP, -1,
                pack_pointer(init_request(GETDIRTREE_OP, 1), 0, path,
                             Len(CStr(path))),
                <<>>, 0)

\* freedirtree(dt) with the tree the client holds (or NULL):
\* free_dirtreenode(dt), nothing else
Freedirtree ==
    /\ CanCall
    /\ client' = [client EXCEPT
                    !.pc = "returned", !.calls = @ + 1, !.op = FREEDIRTREE_OP,
                    !.fd = -1, !.ret = 0, !.buf = <<>>, !.basep = 0,
                    !.tree = NoTree, !.local = <<>>, !.wrote = <<>>]
    /\ server' = [server EXCEPT !.exec = <<>>, !.unread = <<>>]
    /\ UNCHANGED <<mode, frameVars, codecVars, kernel, to_server, to_client>>

\* what a stub does with the response wait_response gave it, by operation:
\* the client as the call leaves it.  first is atoi / atol of the first
\* return value.
StubResult(c, response, rv, first) ==
    LET failed == [c EXCEPT !.pc = "returned", !.ret = first,
                            !.errno = response.errno_num]
        done == [c EXCEPT !.pc = "returned", !.ret = first]
    IN  CASE c.op \in {OPEN_OP, CLOSE_OP, WRITE_OP, LSEEK_OP, UNLINK_OP} ->
               IF first < 0 THEN failed ELSE done
          [] c.op = READ_OP ->
               IF first < 0 THEN failed
               ELSE [done EXCEPT !.buf = Store(c.buf, 0, SubSeq(rv[2], 1, first))]
          [] c.op = STAT_OP ->
               IF first < 0
               THEN [failed EXCEPT !.buf = Store(c.buf, 0, SubSeq(rv[2], 1, StatSize))]
               ELSE [done EXCEPT !.buf = Store(c.buf, 0, SubSeq(rv[2], 1, StatSize))]
          [] c.op = GETDIRENTRIES_OP ->
               IF first < 0 THEN failed
               ELSE [done EXCEPT !.buf = Store(c.buf, 0, rv[2]),
                                 !.basep = Atoi(rv[2])]

\* GetdirtreeResult of a stub that keeps the root and drops its entries
GetdirtreeResult_root(c, response) ==
    IF response.errno_num = 0
    THEN [c EXCEPT !.pc = "returned",
                   !.tree = [deserialize_dirtree(response.return_vals[1] \o NUL)
                               EXCEPT !.root = Leaf(@.name)]]
    ELSE [c EXCEPT !.pc = "returned", !.errno = response.errno_num,
                   !.tree = NoTree]

\* getdirtree after wait_response: the tree when the response's errno is 0
GetdirtreeResult(c, response) ==
    IF response.errno_num = 0
    THEN [c EXCEPT !.pc = "returned",
                   !.tree = deserialize_dirtree(response.return_vals[1] \o NUL)]
    ELSE [c EXCEPT !.pc = "returned", !.errno = response.errno_num,
                   !.tree = NoTree]

StubReturn(c, response) ==
    IF c.op = GETDIRTREE_OP THEN GetdirtreeResult(c, response)
    ELSE StubResult(c, response, response.return_vals,
                    Atoi(response.return_vals[1]))

\* handles remembers which native descriptor the worker's open gave for a
\* handle the open stub returns, closed the handles that close has returned
\* 0 for and open has not returned since
Remember(back, exec) ==
    IF back.op = OPEN_OP /\ back.ret >= 0 /\ exec # <<>>
    THEN [back EXCEPT !.handles = @ \cup {<<back.ret, exec[1].ret>>},
                      !.closed = @ \ {back.ret}]
    ELSE IF back.op = CLOSE_OP /\ back.ret = 0 /\ back.fd >= OFFSET
    THEN [back EXCEPT !.closed = @ \cup {back.fd}]
    ELSE back

\* wait_response with the message it got, and the rest of the stub
Responded(c, response, exec) ==
    IF response.fault THEN [c EXCEPT !.pc = "crashed"]
    ELSE Remember(StubReturn(c, response), exec)

\* wait_response after parse_message returned p
Waited(c, p, exec) ==
    IF ~p.found THEN [c EXCEPT !.storage_buf = p.buf, !.storage_size = p.size]
    ELSE Responded([c EXCEPT !.storage_buf = p.buf, !.storage_size = p.size,
                             !.consumed = @ + 1],
                   deserialize_response(p.message \o NUL), exec)

\* greedy_read's last recv in wait_response: when it found the socket empty
\* (no byte left, the buffer not full, the peer not gone) it failed and set
\* errno to EAGAIN
Received(c, r) ==
    IF r.read < STORAGE_SIZE - c.storage_size /\ ~r.exit
    THEN [c EXCEPT !.errno = EAGAIN] ELSE c

\* wait_response's test of what greedy_read returned, and parse_message
Parsed(buf, size, r) ==
    parse_message(Store(buf, size, r.data),
                  IF AcceptRead(size, r.read) THEN size + r.read ELSE size)

\* one pass of wait_response's while (message == NULL) that finds bytes to
\* read or the peer gone (a pass that finds neither changes nothing but
\* errno, which the pass that ends the wait sets again), and the rest of the
\* stub when the pass yields the response
WaitResponse ==
    /\ mode = "system"
    /\ client.pc = "waiting"
    /\ to_client # <<>> \/ server.pc # "serving"
    /\ \E r \in { greedy_read(to_client, STORAGE_SIZE - client.storage_size,
                              server.pc # "serving") } :
          /\ to_client' = r.rest
          /\ client' = Waited(Received(client, r),
                              Parsed(client.storage_buf, client.storage_size, r),
                              server.exec)
    /\ UNCHANGED <<mode, frameVars, codecVars, server, kernel, to_server>>

\* the client process ends: its end of the connection is closed
ClientExit ==
    /\ mode = "system"
    /\ client.pc \in {"idle", "returned"}
    /\ client' = [client EXCEPT !.pc = "exited"]
    /\ UNCHANGED <<mode, frameVars, codecVars, server, kernel, to_server, to_client>>

\* _init has connected, main has accepted and forked the worker, whose
\* descriptors are the standard streams and the client's socket; the server's
\* directory holds the first path
InitSystem ==
    /\ FrameIdle
    /\ CodecIdle
    /\ mode = "system"
    /\ client = [pc |-> "idle", calls |-> 0, op |-> -1, fd |-> -1, ret |-> 0,
                 errno |-> 0, errno0 |-> 0, buf |-> <<>>, basep |-> 0,
                 tree |-> NoTree,
                 storage_buf |-> Zeros(STORAGE_SIZE + 1), storage_size |-> 0,
                 local |-> <<>>, wrote |-> <<>>, handles |-> {}, closed |-> {},
                 sent |-> 0, consumed |-> 0]
    /\ server = [pc |-> "serving", storage_buf |-> Zeros(STORAGE_SIZE + 1),
                 storage_size |-> 0, exec |-> <<>>, unread |-> <<>>]
    /\ kernel = ForkedKernel({ <<97>> })
    /\ to_server = <<>>
    /\ to_client = <<>>

Next ==
    \/ Open \/ Close \/ Read \/ Write \/ Lseek \/ Stat \/ Unlink
    \/ Getdirentries \/ Getdirtree \/ Freedirtree
    \/ WaitResponse \/ Service \/ ClientExit

Spec == InitSystem /\ [][Next]_vars

\* C8: the handle the open stub returns is the native descriptor of the
\* worker's open plus OFFSET, and a close / read / write / lseek /
\* getdirentries called with a handle h >= OFFSET makes the worker execute
\* exactly that system call on native descriptor h - OFFSET, which is the
\* descriptor n the worker's open returned when h came from open.
C8_HandleTranslation ==
    mode = "system" =>
      /\ \A h \in client.handles : h[1] = h[2] + OFFSET
      /\ (client.pc = "returned" /\ client.op = OPEN_OP /\ server.exec # <<>>
            /\ server.exec[1].ret >= 0)
           => /\ client.ret = server.exec[1].ret + OFFSET
              /\ <<client.ret, server.exec[1].ret>> \in client.handles
      /\ (client.pc = "returned" /\ client.op \in FdOps /\ client.fd >= OFFSET)
           => server.exec # <<>>
      /\ (client.op \in FdOps /\ client.fd >= OFFSET /\ server.exec # <<>>)
           => /\ Len(server.exec) = 1
              /\ server.exec[1].op = client.op
              /\ server.exec[1].fd = client.fd - OFFSET
              /\ \A h \in client.handles :
                   h[1] = client.fd => server.exec[1].fd = h[2]

\* a read on a handle that open returned for native descriptor 3 came back
\* with data
C8_Witness ==
    /\ mode = "system"
    /\ client.pc = "returned"
    /\ client.op = READ_OP
    /\ <<client.fd, 3>> \in client.handles
    /\ server.exec = <<[op |-> READ_OP, fd |-> 3, ret |-> MaxCount, errno |-> 0]>>
    /\ client.ret = MaxCount

\* C9: what the open stub returns is >= OFFSET exactly when the worker's open
\* succeeded and -1 exactly when it failed, and is never in 0 .. OFFSET - 1.
C9_OpenReturnsHandleOrFailure ==
    (mode = "system" /\ client.pc = "returned" /\ client.op = OPEN_OP) =>
      /\ Len(server.exec) = 1
      /\ server.exec[1].op = OPEN_OP
      /\ (client.ret >= OFFSET) <=> (server.exec[1].ret # -1)
      /\ (client.ret = -1) <=> (server.exec[1].ret = -1)
      /\ ~(client.ret >= 0 /\ client.ret < OFFSET)

\* an open that failed on the server, after one that succeeded
C9_Witness ==
    /\ mode = "system"
    /\ client.pc = "returned"
    /\ client.op = OPEN_OP
    /\ client.handles # {}
    /\ server.exec = <<[op |-> OPEN_OP, fd |-> -1, ret |-> -1, errno |-> ENOENT]>>
    /\ client.ret = -1

\* `bytes` is one envelope and nothing more, and its message is a request for
\* operation op on descriptor fd
OneRequest(bytes, op, fd) ==
    /\ parse_message(Mem(bytes), Len(bytes)).found
    /\ parse_message(Mem(bytes), Len(bytes)).size = 0
    /\ ~deserialize_request(parse_message(Mem(bytes), Len(bytes)).message \o NUL).fault
    /\ deserialize_request(parse_message(Mem(bytes), Len(bytes)).message \o NUL).command_op = op
    /\ Atoi(deserialize_request(parse_message(Mem(bytes), Len(bytes)).message \o NUL).params[1]) = fd

\* C10: close, read, write, lseek and getdirentries with a descriptor below
\* OFFSET make the one local call and put no byte on the connection; with a
\* descriptor >= OFFSET they make no local call and send exactly one request;
\* freedirtree sends nothing.
C10_LocalOrRemote ==
    (mode = "system" /\ client.pc \in {"waiting", "returned"}) =>
      /\ (client.op \in FdOps /\ client.fd < OFFSET)
           => /\ client.local = <<[op |-> client.op, fd |-> client.fd]>>
              /\ client.wrote = <<>>
              /\ to_server = <<>>
              /\ server.exec = <<>>
      /\ (client.op \in FdOps /\ client.fd >= OFFSET)
           => /\ client.local = <<>>
              /\ OneRequest(client.wrote, client.op, client.fd)
              /\ to_server \in {<<>>, client.wrote}
      /\ client.op = FREEDIRTREE_OP
           => /\ client.wrote = <<>>
              /\ to_server = <<>>
              /\ server.exec = <<>>

\* a close of handle OFFSET itself went to the server and came back
C10_Witness ==
    /\ mode = "system"
    /\ client.pc = "returned"
    /\ client.op = CLOSE_OP
    /\ client.fd = OFFSET
    /\ client.wrote # <<>>
    /\ server.exec = <<[op |-> CLOSE_OP, fd |-> 0, ret |-> 0, errno |-> 0]>>

\* C11: the requests the stub has sent are at most one more than the
\* responses it has consumed, and a step that sends a request starts from a
\* state where every earlier request's response has been consumed.
C11_OneOutstanding ==
    [][mode = "system" =>
         /\ client.sent - client.consumed \in {0, 1}
         /\ client'.sent - client'.consumed \in {0, 1}
         /\ client'.sent # client.sent
              => /\ client'.sent = client.sent + 1
                 /\ client.consumed = client.sent]_vars

\* the second request is out, the first one's response has been consumed
C11_Witness ==
    /\ mode = "system"
    /\ client.pc = "waiting"
    /\ client.sent = 2
    /\ client.consumed = 1
    /\ to_server # <<>>

----------------------------------------------------------------------------
(* The worker with a peer that writes two requests one after the other     *)
(* without waiting for a response                                          *)

\* requests as the stubs build them: open and unlink and stat of the first
\* path, close of the handle of descriptor 3
PeerRequests ==
    { pack_integral(
          pack_integral(
              pack_pointer(init_request(OPEN_OP, 3), 0, <<97>>, 1), 1, 0), 2, 0),
      pack_integral(init_request(CLOSE_OP, 1), 0, OFFSET + 3),
      pack_pointer(init_request(UNLINK_OP, 1), 0, <<97>>, 1),
      pack_pointer(init_request(STAT_OP, 1), 0, <<97>>, 1) }

InitWorker ==
    /\ CodecIdle
    /\ mode = "worker"
    /\ \E r1 \in PeerRequests : \E r2 \in PeerRequests :
          /\ msgs = <<serialize_request(r1), serialize_request(r2)>>
          /\ wire = Envelope(serialize_request(r1)) \o Envelope(serialize_request(r2))
    /\ sock = <<>>
    /\ storage_buf = <<>>
    /\ storage_size = 0
    /\ extracted = <<>>
    /\ last = NoCall
    /\ client = [pc |-> "peer"]
    /\ server = [pc |-> "serving", storage_buf |-> Zeros(STORAGE_SIZE + 1),
                 storage_size |-> 0, exec |-> <<>>, unread |-> <<>>]
    /\ kernel = ForkedKernel({ <<97>> })
    /\ to_server = <<>>
    /\ to_client = <<>>

\* how many bytes of the peer's stream may have arrived when the worker
\* reads: one, the first envelope less a byte, the first envelope, a byte
\* more, all but a byte, all
ArrivalMarks ==
    {1, Len(Envelope(msgs[1])) - 1, Len(Envelope(msgs[1])),
     Len(Envelope(msgs[1])) + 1, Len(Envelopes(msgs)) - 1, Len(Envelopes(msgs))}

\* the connection carries the peer's bytes up to the next mark
Arrive ==
    /\ mode = "worker"
    /\ wire # <<>>
    /\ \E q \in ArrivalMarks :
          /\ q > Len(Envelopes(msgs)) - Len(wire)
          /\ to_server' = to_server
                            \o SubSeq(wire, 1, q - (Len(Envelopes(msgs)) - Len(wire)))
          /\ wire' = SubSeq(wire, q - (Len(Envelopes(msgs)) - Len(wire)) + 1,
                            Len(wire))
    /\ UNCHANGED <<mode, msgs, storage_buf, storage_size, extracted, last, sock,
                   codecVars, client, server, kernel, to_client>>

NextWorker == Arrive \/ Service

SpecWorker == InitWorker /\ [][NextWorker]_vars

RECURSIVE KernelAfter(_, _, _)
\* the kernel state after the first i of the requests reqs were served one
\* after the other from state k (these requests' calls have one outcome)
KernelAfter(reqs, i, k) ==
    IF i = 0 THEN k
    ELSE (CHOOSE s \in Dispatch(deserialize_request(reqs[i] \o NUL),
                                KernelAfter(reqs, i - 1, k)) : TRUE).kernel

RECURSIVE EnvelopesLen(_, _)
\* the length of the envelopes of the first i of the messages ms
EnvelopesLen(ms, i) ==
    IF i = 0 THEN 0 ELSE EnvelopesLen(ms, i - 1) + Len(Envelope(ms[i]))

\* the response resp carries the result of the system call e
Answers(resp, e) ==
    /\ ~resp.fault
    /\ Atoi(resp.return_vals[1]) =
         IF e.op = OPEN_OP /\ e.ret # -1 THEN e.ret + OFFSET ELSE e.ret

\* the first n requests were served in the order of arrival: call i is
\* request i's, made on the kernel state the calls before it left, when the
\* responses to all requests before it, and nothing else, had been written;
\* the responses written are those n, in that order
ServedInOrder(n, responses) ==
    /\ n <= Len(msgs)
    /\ Len(server.unread) = n
    /\ Len(responses) = n
    /\ \A i \in 1..n :
         /\ <<server.exec[i]>> \in
              { s.exec : s \in Dispatch(deserialize_request(msgs[i] \o NUL),
                                        KernelAfter(msgs, i - 1,
                                            ForkedKernel({ <<97>> }))) }
         /\ Answers(deserialize_response(responses[i] \o NUL), server.exec[i])
         /\ server.unread[i].queued + server.unread[i].before
              = EnvelopesLen(responses, i - 1)

\* C12: the worker makes the system calls of its connection's requests in the
\* order the requests arrived, each after the response to the request before
\* it has been written in full, and the responses leave in that order; also
\* when one read brings both requests.
C12_ArrivalOrder ==
    mode = "worker" =>
      /\ DrainMessages(Mem(to_client), Len(to_client), <<>>).size = 0
      /\ ServedInOrder(Len(server.exec),
                       DrainMessages(Mem(to_client), Len(to_client), <<>>).messages)
      /\ (wire = <<>> /\ to_server = <<>>) => Len(server.exec) = Len(msgs)

\* one read brought an open and the close of the handle it returns: the
\* close was made after the open's response was written, and succeeded
C12_Witness ==
    /\ mode = "worker"
    /\ Len(server.exec) = 2
    /\ server.exec[1] = [op |-> OPEN_OP, fd |-> -1, ret |-> 3, errno |-> 0]
    /\ server.exec[2] = [op |-> CLOSE_OP, fd |-> 3, ret |-> 0, errno |-> 0]
    /\ server.unread[2].queued = 0
    /\ server.unread[2].before > 0

----------------------------------------------------------------------------
(* errno                                                                    *)

\* the stubs that report a system call's failure as -1 with errno
ErrnoOps ==
    {OPEN_OP, CLOSE_OP, READ_OP, WRITE_OP, LSEEK_OP, STAT_OP, UNLINK_OP,
     GETDIRENTRIES_OP}

\* C13: when the system call of a remote open, close, read, write, lseek,
\* stat, unlink or getdirentries failed in the worker, the stub returns -1
\* and leaves in the caller's errno the errno that system call produced.
C13_FailureCarriesErrno ==
    mode = "system" =>
      ((client.pc = "returned" /\ client.op \in ErrnoOps /\ server.exec # <<>>
          /\ server.exec[1].ret = -1)
        => /\ client.ret = -1
           /\ server.exec[1].errno # 0
           /\ client.errno = server.exec[1].errno)

\* a read on a handle whose descriptor the worker has closed came back with
\* -1 and the worker's EBADF, after an earlier call failed with ENOENT
C13_Witness ==
    /\ mode = "system"
    /\ client.pc = "returned"
    /\ client.op = READ_OP
    /\ client.fd >= OFFSET
    /\ client.errno0 = ENOENT
    /\ server.exec = <<[op |-> READ_OP, fd |-> client.fd - OFFSET, ret |-> -1,
                        errno |-> EBADF]>>
    /\ client.ret = -1
    /\ client.errno = EBADF

\* C14: a remote open that succeeded (it returned a handle h >= OFFSET) leaves
\* the caller's errno as it was when open was called.
C14_SuccessKeepsErrno ==
    mode = "system" =>
      ((client.pc = "returned" /\ client.op = OPEN_OP /\ client.ret >= OFFSET)
        => client.errno = client.errno0)

\* C15: of a handle h that open returned, the first close returns 0; once
\* close(h) has returned 0, and until open returns h again, close, read, write
\* and lseek on h return -1 with errno EBADF.
C15_ClosedHandleFails ==
    [][(/\ mode = "system"
        /\ client.pc = "waiting"
        /\ client'.pc = "returned"
        /\ client.op \in {CLOSE_OP, READ_OP, WRITE_OP, LSEEK_OP}
        /\ \E h \in client.handles : h[1] = client.fd)
         => IF client.fd \in client.closed
            THEN client'.ret = -1 /\ client'.errno = EBADF
            ELSE client.op = CLOSE_OP
                   => client'.ret = 0 /\ client.fd \in client'.closed]_vars

\* the second close of a handle that open returned came back with -1 and
\* EBADF
C15_Witness ==
    /\ mode = "system"
    /\ client.pc = "returned"
    /\ client.op = CLOSE_OP
    /\ \E h \in client.handles : h[1] = client.fd
    /\ client.fd \in client.closed
    /\ client.ret = -1
    /\ client.errno = EBADF

----------------------------------------------------------------------------
(* The worker's end of the connection closes while the stub waits           *)

\* the worker's process ends while the stub waits (it is killed, or an assert
\* of its own fails): its end of the connection is closed
WorkerEnds ==
    /\ mode = "system"
    /\ client.pc = "waiting"
    /\ server.pc = "serving"
    /\ server' = [server EXCEPT !.pc = "ended"]
    /\ UNCHANGED <<mode, frameVars, codecVars, client, kernel, to_server,
                   to_client>>

NextDown == Next \/ WorkerEnds

SpecDown == InitSystem /\ [][NextDown]_vars

\* C20: when the worker's end of the connection has closed and the stub
\* waits with nothing left to read, the stub's wait loop has a pass that ends
\* the wait: the interposed call returns -1 with errno set.
C20_WaitEndsOnClose ==
    (mode = "system" /\ client.pc = "waiting" /\ server.pc = "ended"
       /\ to_client = <<>>)
      => ENABLED (/\ WaitResponse
                  /\ client'.pc = "returned"
                  /\ client'.ret = -1
                  /\ client'.errno # 0)

----------------------------------------------------------------------------
(* Handles the worker did not give out                                      *)

\* the handle fd is one that open returned on this connection and close has
\* not returned 0 for since
LiveHandle(fd) ==
    /\ \E h \in client.handles : h[1] = fd
    /\ fd \notin client.closed

\* C18: a close / read / write / lseek / getdirentries request with a handle
\* h >= OFFSET that open did not return on this connection, or that has been
\* closed, is answered with -1 and EBADF and changes no descriptor and no
\* file of the worker.
C18_ForeignHandleRefused ==
    [][(/\ mode = "system"
        /\ client.pc = "waiting"
        /\ client.op \in FdOps
        /\ client.fd >= OFFSET
        /\ ~LiveHandle(client.fd)
        /\ server.exec = <<>>
        /\ server'.exec # <<>>)
         => /\ kernel' = kernel
            /\ server'.exec[1].ret = -1
            /\ server'.exec[1].errno = EBADF]_vars

----------------------------------------------------------------------------
(* main and its workers, with several clients.  client, to_server and      *)
(* to_client are per client; server is main's backlog and the worker       *)
(* forked for each client; kernel is the paths that exist and each         *)
(* worker's own descriptors.                                               *)

Clients == {1, 2, 3}

\* the clients that run open / read / close cycles, and the file of each
Callers == {1, 2}
PathOf(i) == IF i = 1 THEN <<97>> ELSE <<98>>

NoWorker ==
    [pc |-> "none", storage_buf |-> <<>>, storage_size |-> 0, exec |-> <<>>]

\* no client has started; each caller's program makes `calls` calls
ServerStart(calls) ==
    /\ FrameIdle
    /\ CodecIdle
    /\ mode = "server"
    /\ client = [i \in Clients |->
                   [pc |-> "down", calls |-> 0, op |-> -1, fd |-> -1, ret |-> 0,
                    errno |-> 0, errno0 |-> 0, buf |-> <<>>, basep |-> 0,
                    tree |-> NoTree, storage_buf |-> <<>>, storage_size |-> 0,
                    local |-> <<>>, wrote |-> <<>>, handles |-> {},
                    closed |-> {}, sent |-> 0, consumed |-> 0, h |-> -1,
                    program |-> IF i \in Callers THEN calls ELSE 0]]
    /\ server = [backlog |-> <<>>, workers |-> [i \in Clients |-> NoWorker]]
    /\ kernel = [files |-> { <<97>>, <<98>> },
                 proc |-> [i \in Clients |->
                             [fds |-> {}, of |-> ForkedKernel({}).of,
                              pos |-> ForkedKernel({}).pos]]]
    /\ to_server = [i \in Clients |-> <<>>]
    /\ to_client = [i \in Clients |-> <<>>]

InitServer == ServerStart(MaxCalls)

\* the callers' programs make one call, the open
InitServerShort == ServerStart(1)

\* _init of client i: build_client's connect completes in the listener's
\* backlog
Connect(i) ==
    /\ mode = "server"
    /\ client[i].pc = "down"
    /\ client' = [client EXCEPT ![i].pc = "idle"]
    /\ server' = [server EXCEPT !.backlog = Append(@, i)]
    /\ UNCHANGED <<mode, frameVars, codecVars, kernel, to_server, to_client>>

\* an acceptor that serves the connection itself: it reaches accept_client
\* again when service has returned
AcceptCanPass_inline ==
    /\ mode = "server"
    /\ server.backlog # <<>>
    /\ \A j \in Clients : server.workers[j].pc # "serving"

\* main is at accept_client with a connection in the backlog: it waits for
\* no worker (the child runs service, the parent reaps with WNOHANG)
AcceptCanPass ==
    /\ mode = "server"
    /\ server.backlog # <<>>

\* one pass of main's loop: accept_client, fork (which succeeds); the child
\* closes the listener and runs service on the connection, the parent closes
\* the connection, reaps without waiting and loops
Accept ==
    /\ AcceptCanPass
    /\ server' = [server EXCEPT
                    !.backlog = Tail(@),
                    !.workers[Head(server.backlog)] =
                        [pc |-> "serving", storage_buf |-> Zeros(STORAGE_SIZE + 1),
                         storage_size |-> 0, exec |-> <<>>]]
    /\ kernel' = [kernel EXCEPT
                    !.proc[Head(server.backlog)] =
                        [fds |-> ForkedKernel({}).fds, of |-> ForkedKernel({}).of,
                         pos |-> ForkedKernel({}).pos]]
    /\ UNCHANGED <<mode, frameVars, codecVars, client, to_server, to_client>>

\* the request of the next call of client i's cycle: open of its file, read
\* of MaxCount bytes on the handle open returned, close of that handle
CycleRequest(c, i) ==
    CASE c.calls % 3 = 0 ->
           pack_integral(
               pack_integral(
                   pack_pointer(init_request(OPEN_OP, 3), 0, PathOf(i), 1),
                   1, 0),
               2, 0)
      [] c.calls % 3 = 1 ->
           pack_integral(
               pack_pointer(
                   pack_integral(init_request(READ_OP, 3), 0, c.ret),
                   1, [n \in 1..MaxCount |-> 120], MaxCount),
               2, MaxCount)
      [] c.calls % 3 = 2 ->
           pack_integral(init_request(CLOSE_OP, 1), 0, c.h)

\* client i in the stub of its cycle's next call, up to wait_response's loop
Calling(c, i) ==
    [c EXCEPT !.pc = "waiting", !.calls = @ + 1,
              !.op = CycleRequest(c, i).command_op,
              !.fd = IF c.calls % 3 = 0 THEN -1
                     ELSE IF c.calls % 3 = 1 THEN c.ret ELSE c.h,
              !.h = IF c.calls % 3 = 1 THEN c.ret ELSE @,
              !.ret = 0, !.errno0 = c.errno,
              !.buf = IF c.calls % 3 = 1 THEN [n \in 1..MaxCount |-> 120]
                      ELSE <<>>,
              !.storage_buf = Zeros(STORAGE_SIZE + 1), !.storage_size = 0,
              !.sent = @ + 1,
              !.wrote = Envelope(serialize_request(CycleRequest(c, i)))]

\* client i calls the next function of its cycle: send_request, and
\* wait_response up to its loop
Call(i) ==
    /\ mode = "server"
    /\ client[i].pc \in {"idle", "returned"}
    /\ client[i].calls < client[i].program
    /\ client' = [client EXCEPT ![i] = Calling(client[i], i)]
    /\ to_server' = [to_server EXCEPT
                       ![i] = @ \o Envelope(serialize_request(
                                               CycleRequest(client[i], i)))]
    /\ UNCHANGED <<mode, frameVars, codecVars, server, kernel, to_client>>

\* client i stops in the middle of a request: only the first n bytes of the
\* envelope leave it
StopMidRequest(i) ==
    /\ mode = "server"
    /\ client[i].pc \in {"idle", "returned"}
    /\ client[i].calls < client[i].program
    /\ \E n \in {1, Len(Envelope(serialize_request(CycleRequest(client[i], i)))) - 1} :
          to_server' = [to_server EXCEPT
                          ![i] = @ \o SubSeq(Envelope(serialize_request(
                                                 CycleRequest(client[i], i))),
                                             1, n)]
    /\ client' = [client EXCEPT ![i].pc = "stopped"]
    /\ UNCHANGED <<mode, frameVars, codecVars, server, kernel, to_client>>

\* client i's process ends: its end of the connection is closed
Disconnect(i) ==
    /\ mode = "server"
    /\ client[i].pc \in {"idle", "returned", "stopped"}
    /\ client' = [client EXCEPT ![i].pc = "exited"]
    /\ UNCHANGED <<mode, frameVars, codecVars, server, kernel, to_server,
                   to_client>>

\* a worker that looks descriptors up in the table of the first worker
WorkerKernel_first(i) ==
    [fds |-> kernel.proc[1].fds, files |-> kernel.files, of |-> kernel.proc[1].of,
     pos |-> kernel.proc[1].pos, local_root |-> NoTree]

\* fork(): worker i has its own descriptors, and the paths all share
WorkerKernel(i) ==
    [fds |-> kernel.proc[i].fds, files |-> kernel.files, of |-> kernel.proc[i].of,
     pos |-> kernel.proc[i].pos, local_root |-> NoTree]

\* a worker whose pass ignores client_exit
Passed_on(w, r, s) ==
    [w EXCEPT !.pc = IF s.crashed THEN "crashed" ELSE "serving",
              !.storage_buf = s.buf,
              !.storage_size = s.size,
              !.exec = @ \o [n \in 1..Len(s.exec) |->
                               [op |-> s.exec[n].op, fd |-> s.exec[n].fd,
                                ret |-> s.exec[n].ret,
                                errno |-> s.exec[n].errno]]]

\* worker i after a pass of service that read r and served s
Passed(w, r, s) ==
    [w EXCEPT !.pc = IF s.crashed THEN "crashed"
                     ELSE IF r.exit THEN "done" ELSE "serving",
              !.storage_buf = s.buf,
              !.storage_size = s.size,
              !.exec = @ \o [n \in 1..Len(s.exec) |->
                               [op |-> s.exec[n].op, fd |-> s.exec[n].fd,
                                ret |-> s.exec[n].ret,
                                errno |-> s.exec[n].errno]]]

\* what a pass of worker i's service that read r and served s leaves in
\* to_server, to_client, kernel and server
WorkerPassed(i, r, s) ==
    <<[to_server EXCEPT ![i] = r.rest],
      [to_client EXCEPT ![i] = @ \o s.out],
      [kernel EXCEPT !.files = s.kernel.files,
                     !.proc[i] = [fds |-> IF r.exit /\ ~s.crashed
                                          THEN s.kernel.fds \ {client_fd}
                                          ELSE s.kernel.fds,
                                  of |-> s.kernel.of, pos |-> s.kernel.pos]],
      [server EXCEPT !.workers[i] = Passed(server.workers[i], r, s)]>>

WorkerRead(i, r) ==
    { WorkerPassed(i, r, s) :
        s \in ServeMessages(
                 Store(server.workers[i].storage_buf,
                       server.workers[i].storage_size, r.data),
                 IF AcceptRead(server.workers[i].storage_size, r.read)
                 THEN server.workers[i].storage_size + r.read
                 ELSE server.workers[i].storage_size,
                 WorkerKernel(i), <<>>, <<>>) }

\* the outcomes of one pass of the while (true) of worker i's service that
\* finds bytes to read or the peer gone
WorkerPass(i) ==
    IF /\ mode = "server"
       /\ server.workers[i].pc = "serving"
       /\ to_server[i] # <<>> \/ client[i].pc = "exited"
    THEN WorkerRead(i, greedy_read(to_server[i],
                                   STORAGE_SIZE - server.workers[i].storage_size,
                                   client[i].pc = "exited"))
    ELSE {}

Worker(i) ==
    /\ \E t \in WorkerPass(i) :
          /\ to_server' = t[1]
          /\ to_client' = t[2]
          /\ kernel' = t[3]
          /\ server' = t[4]
    /\ UNCHANGED <<mode, frameVars, codecVars, client>>

\* a pass of worker i can change the state: ENABLED <<Worker(i)>>_vars
WorkerCanPass(i) ==
    \E t \in WorkerPass(i) : t # <<to_server, to_client, kernel, server>>

\* the last system call worker w made
LastCall(w) == SubSeq(w.exec, Len(w.exec), Len(w.exec))

\* what a pass of wait_response's loop in client i that read r leaves in
\* to_client and client
AwaitRead(i, r) ==
    <<[to_client EXCEPT ![i] = r.rest],
      [client EXCEPT ![i] = Waited(Received(client[i], r),
                                   Parsed(client[i].storage_buf,
                                          client[i].storage_size, r),
                                   LastCall(server.workers[i]))]>>

\* the outcomes of one pass of wait_response's loop in client i that finds
\* bytes to read or the peer gone, and of the rest of the stub when the pass
\* yields the response
AwaitPass(i) ==
    IF /\ mode = "server"
       /\ client[i].pc = "waiting"
       /\ to_client[i] # <<>> \/ server.workers[i].pc \in {"done", "crashed"}
    THEN { AwaitRead(i, greedy_read(to_client[i],
                                    STORAGE_SIZE - client[i].storage_size,
                                    server.workers[i].pc \in {"done", "crashed"})) }
    ELSE {}

Await(i) ==
    /\ \E t \in AwaitPass(i) :
          /\ to_client' = t[1]
          /\ client' = t[2]
    /\ UNCHANGED <<mode, frameVars, codecVars, server, kernel, to_server>>

\* a pass of wait_response in client i can change the state:
\* ENABLED <<Await(i)>>_vars
AwaitCanPass(i) == \E t \in AwaitPass(i) : t # <<to_client, client>>

NextServer ==
    \/ Accept
    \/ \E i \in Clients :
          \/ Connect(i) \/ Call(i) \/ StopMidRequest(i) \/ Disconnect(i)
          \/ Worker(i) \/ Await(i)

SpecServer == InitServer /\ [][NextServer]_vars

\* WF_vars(Accept), WF_vars(Worker(i)) and WF_vars(Await(i)) with ENABLED
\* written out: main, the workers and the clients inside a stub are running
\* processes whose loops keep passing; nothing makes a client call or exit
FairServer ==
    /\ []<>~AcceptCanPass \/ []<><<Accept>>_vars
    /\ \A i \in Clients : []<>~WorkerCanPass(i) \/ []<><<Worker(i)>>_vars
    /\ \A i \in Callers : []<>~AwaitCanPass(i) \/ []<><<Await(i)>>_vars

SpecServerFair == InitServerShort /\ [][NextServer]_vars /\ FairServer

\* C16: whatever the other clients do, a client that waits in a stub gets
\* its response, and a connection in the backlog gets its worker: a client
\* that has stopped in the middle of a request, or that sends nothing, holds
\* up neither.
C16_OthersProgress ==
    /\ \A j \in Callers :
          (mode = "server" /\ client[j].pc = "waiting")
            ~> (client[j].pc = "returned")
    /\ \A j \in Clients :
          (mode = "server" /\ client[j].pc # "down"
             /\ server.workers[j].pc = "none")
            ~> (server.workers[j].pc # "none")

\* the first client has stopped in the middle of a request, part of which
\* its worker holds; the second has had all its calls answered since worker
\* 1 took those bytes; the third has been accepted, and all three workers run
C16_Witness ==
    /\ mode = "server"
    /\ client[1].pc = "stopped"
    /\ client[1].calls = 0
    /\ server.workers[1].pc = "serving"
    /\ server.workers[1].storage_size > 0
    /\ client[2].pc = "returned"
    /\ client[2].calls = client[2].program
    /\ client[2].ret = OFFSET + 3
    /\ server.workers[2].pc = "serving"
    /\ server.workers[3].pc = "serving"

\* C17: with two clients running open / read / close on different files in
\* any interleaving, the bytes a read gives a client are bytes of the file
\* that client opened, also when both workers use the same descriptor number
\* and both clients hold the same handle.
C17_NoCrossTalk ==
    mode = "server" =>
      \A i \in Callers :
        (client[i].pc = "returned" /\ client[i].op = READ_OP)
          => /\ client[i].ret \in 0..MaxCount
             /\ SubSeq(client[i].buf, 1, client[i].ret)
                  = SubSeq(FileBytes(PathOf(i)), 1, client[i].ret)

\* the second client's read has returned its file's bytes on the handle that
\* the first client holds open on the other file
C17_Witness ==
    /\ mode = "server"
    /\ client[1].pc = "returned"
    /\ client[1].op = OPEN_OP
    /\ client[1].ret = OFFSET + 3
    /\ kernel.proc[1].of[3] = <<97>>
    /\ kernel.proc[2].of[3] = <<98>>
    /\ client[2].pc = "returned"
    /\ client[2].op = READ_OP
    /\ client[2].fd = OFFSET + 3
    /\ client[2].ret = MaxCount
    /\ client[2].buf = SubSeq(FileBytes(<<98>>), 1, MaxCount)
    /\ client[2].buf[1] = 98

\* C19: when a client has closed its connection, also in the middle of a
\* request, its worker comes to see it, closes the socket and ends, having
\* made system calls for the complete requests only; a client of another
\* worker that waits in a stub still gets its response.
C19_WorkerEndsOnClose ==
    /\ \A i \in Clients :
          (mode = "server" /\ client[i].pc = "exited")
            ~> (/\ server.workers[i].pc = "done"
                /\ client_fd \notin kernel.proc[i].fds
                /\ Len(server.workers[i].exec) = client[i].sent)
    /\ \A i \in Clients : \A j \in Callers \ {i} :
          (mode = "server" /\ client[i].pc = "exited"
             /\ client[j].pc = "waiting")
            ~> (client[j].pc = "returned" /\ client[j].ret = OFFSET + 3)

\* the first client closed its connection in the middle of its first
\* request: its worker has ended with the bytes it got in its buffer, the
\* socket closed and no system call made, while the second client's worker
\* has served an open and runs
C19_Witness ==
    /\ mode = "server"
    /\ client[1].pc = "exited"
    /\ client[1].sent = 0
    /\ server.workers[1].pc = "done"
    /\ server.workers[1].storage_size > 0
    /\ server.workers[1].exec = <<>>
    /\ client_fd \notin kernel.proc[1].fds
    /\ server.workers[2].pc = "serving"
    /\ Len(server.workers[2].exec) = 1
    /\ client[2].pc = "returned"

----------------------------------------------------------------------------
(* The worker with a peer that writes something else than a stub's request, *)
(* and a stub's request after it                                           *)

\* the unlink request of the first path, as the stub builds it
UnlinkRequest == pack_pointer(init_request(UNLINK_OP, 1), 0, <<97>>, 1)

\* payloads that are not a well-formed request: ParamNum declares one slot
\* and two are present; the Command line is missing
MalformedPayloads ==
    { serialize_request(UnlinkRequest) \o <<49>> \o LINE_SPLIT \o <<98>> \o LINE_SPLIT,
      SubSeq(serialize_request(UnlinkRequest),
             StrStr(serialize_request(UnlinkRequest) \o NUL, 1, LINE_SPLIT)
               + Len(LINE_SPLIT),
             Len(serialize_request(UnlinkRequest))) }

\* well-formed requests with an opcode that service's switch has no case for
UnknownPayloads ==
    { serialize_request(pack_pointer(init_request(op, 1), 0, <<97>>, 1)) :
        op \in {FREEDIRTREE_OP, FREEDIRTREE_OP + 1} }

\* the envelope e with a space for the colon of its header
NoColon(e) == [i \in 1..Len(e) |-> IF i = StrStr(e \o NUL, 1, COLON) THEN 32 ELSE e[i]]

\* the envelope e with letters for the digits of its length field
NonNumeric(e) ==
    [i \in 1..Len(e) |->
        IF i > StrStr(e \o NUL, 1, COLON) /\ i < StrStr(e \o NUL, 1, HEADER_SPLIT)
        THEN 120 ELSE e[i]]

\* what the peer writes first: a payload that is not a served request in its
\* envelope, or a request in an envelope with a bad header
OddFirst ==
    { [payload |-> m, frame |-> Envelope(m)] :
        m \in MalformedPayloads \cup UnknownPayloads }
    \cup { [payload |-> serialize_request(UnlinkRequest),
            frame |-> NoColon(Envelope(serialize_request(UnlinkRequest)))],
           [payload |-> serialize_request(UnlinkRequest),
            frame |-> NonNumeric(Envelope(serialize_request(UnlinkRequest)))] }

\* sock keeps the whole stream the peer writes
InitOdd ==
    /\ CodecIdle
    /\ mode = "worker"
    /\ \E first \in OddFirst :
         \E r2 \in { r \in PeerRequests : r.command_op \in {OPEN_OP, STAT_OP} } :
          /\ msgs = <<first.payload, serialize_request(r2)>>
          /\ wire = first.frame \o Envelope(serialize_request(r2))
          /\ sock = first.frame \o Envelope(serialize_request(r2))
    /\ storage_buf = <<>>
    /\ storage_size = 0
    /\ extracted = <<>>
    /\ last = NoCall
    /\ client = [pc |-> "peer"]
    /\ server = [pc |-> "serving", storage_buf |-> Zeros(STORAGE_SIZE + 1),
                 storage_size |-> 0, exec |-> <<>>, unread |-> <<>>]
    /\ kernel = ForkedKernel({ <<97>> })
    /\ to_server = <<>>
    /\ to_client = <<>>

SpecOdd == InitOdd /\ [][NextWorker]_vars

\* the first thing the peer wrote is the envelope of msgs[1]
FirstFrameGood == SubSeq(sock, 1, Len(Envelope(msgs[1]))) = Envelope(msgs[1])

\* the worker has read the first n bytes of the stream
HasRead(n) == Len(sock) - Len(wire) - Len(to_server) >= n

\* C21: when the payload of an envelope is not a well-formed request (its
\* slot count differs from the slots present, or a header line is missing),
\* the worker, once it has read the envelope, has made no system call and
\* has closed the connection.
C21_MalformedRejected ==
    (mode = "worker" /\ msgs[1] \in MalformedPayloads /\ FirstFrameGood
       /\ HasRead(Len(Envelope(msgs[1]))))
      => (server.pc # "serving" /\ server.exec = <<>>)

\* the header at the start of buf, up to the separator, has no colon or no
\* decimal length
BadHeader(buf) ==
    /\ StrStr(buf, 1, HEADER_SPLIT) # 0
    /\ \/ StrStr(buf, 1, COLON) = 0
       \/ StrStr(buf, 1, COLON) > StrStr(buf, 1, HEADER_SPLIT)
       \/ ~ScanInt(Slice(buf, StrStr(buf, 1, COLON) + 1,
                         StrStr(buf, 1, HEADER_SPLIT) - 1) \o NUL).matched

\* C22: when the bytes the worker has received start with a frame header
\* that has no colon before the separator, or no decimal length, the worker
\* has closed the connection: it is not left serving with those bytes at the
\* start of its buffer, and has made no system call for them.
C22_MalformedFrameCloses ==
    (mode = "worker" /\ ~FirstFrameGood /\ HasRead(Len(Envelope(msgs[1]))))
      => (/\ server.pc # "serving"
          /\ \A n \in 1..Len(server.exec) : server.exec[n].op # UNLINK_OP)

\* C26: a request with an opcode that is not served gets no system call and
\* no response and leaves the connection open: the worker answers the
\* request after it, and that one only.
C26_UnknownOpcodeSkipped ==
    (mode = "worker" /\ msgs[1] \in UnknownPayloads)
      => /\ server.pc = "serving"
         /\ DrainMessages(Mem(to_client), Len(to_client), <<>>).size = 0
         /\ Len(DrainMessages(Mem(to_client), Len(to_client), <<>>).messages)
              = Len(server.exec)
         /\ \A n \in 1..Len(server.exec) :
              /\ n = 1
              /\ server.exec[n].op = deserialize_request(msgs[2] \o NUL).command_op
              /\ server.unread[n] = [queued |-> 0, before |-> 0]
              /\ Answers(deserialize_response(
                             DrainMessages(Mem(to_client), Len(to_client),
                                           <<>>).messages[n] \o NUL),
                         server.exec[n])
         /\ HasRead(Len(sock)) => Len(server.exec) = 1

\* a request with opcode 9 and the open after it came in one read: the
\* worker made the open only, and its response is the first byte it wrote
C26_Witness ==
    /\ mode = "worker"
    /\ msgs[1] \in UnknownPayloads
    /\ deserialize_request(msgs[1] \o NUL).command_op = FREEDIRTREE_OP
    /\ HasRead(Len(sock))
    /\ server.storage_size = 0
    /\ server.exec = <<[op |-> OPEN_OP, fd |-> -1, ret |-> 3, errno |-> 0]>>
    /\ server.unread = <<[queued |-> 0, before |-> 0]>>
    /\ to_client # <<>>

----------------------------------------------------------------------------
(* socket.c robust_write, send_message and greedy_read, one pass of their  *)
(* loops at a time, with every outcome send and recv can have              *)

EINTR == 4
ECONNRESET == 104

\* the largest buf_size greedy_read is called with here
MaxRead == 3

\* the bytes the peer of greedy_read has written
PeerBytes == <<97, 98, 99>>

\* send(fd, buf, left, 0) on a non-blocking socket: it takes some of the
\* bytes, or fails with an errno
SendOutcomes(left) ==
    { [n |-> k, errno |-> 0] : k \in 1..left }
    \cup { [n |-> -1, errno |-> e] : e \in {EINTR, EAGAIN, ECONNRESET} }

\* robust_write's test after a failed send, as written
GivesUp(errno) == errno # EINTR \/ errno # EAGAIN

\* one pass of robust_write's loop on w with send's outcome o; the bytes send
\* took are at the end of w.out
robust_write_pass(w, o) ==
    IF o.n < 0
    THEN IF GivesUp(o.errno)
         THEN [w EXCEPT !.errno = o.errno, !.returned = TRUE,
                        !.ret = w.curr_write]
         ELSE [w EXCEPT !.errno = o.errno]
    ELSE [w EXCEPT !.curr_write = @ + o.n,
                   !.out = @ \o SubSeq(w.buf, w.curr_write + 1, w.curr_write + o.n),
                   !.returned = (w.curr_write + o.n >= w.to_write),
                   !.ret = w.curr_write + o.n]

\* robust_write(fd, buf, to_write) at entry
robust_write_entry(buf, to_write) ==
    [buf |-> buf, to_write |-> to_write, curr_write |-> 0, out |-> <<>>,
     errno |-> 0, returned |-> FALSE, ret |-> 0]

\* a send_message whose assert is compiled out
AssertHolds_off(ret, total) == TRUE

\* send_message's assert(robust_write(...) == to_write + header_len)
AssertHolds(ret, total) == ret = total

\* recv(fd, buf, room, 0) on a non-blocking socket with queue `avail`
RecvOutcomes(avail, room, closed) ==
    { [n |-> k, errno |-> 0] :
        k \in 1..(IF Len(avail) < room THEN Len(avail) ELSE room) }
    \cup { [n |-> 0, errno |-> 0] : x \in { c \in {closed} : c /\ avail = <<>> } }
    \cup { [n |-> -1, errno |-> EAGAIN] : x \in { c \in {closed} : ~c /\ avail = <<>> } }
    \cup { [n |-> -1, errno |-> e] : e \in {EINTR, ECONNRESET} }

\* a greedy_read that gives up on a signal
greedy_read_pass_intr(g, o, avail) ==
    IF o.n > 0
    THEN [g EXCEPT !.curr_read = @ + o.n, !.data = @ \o SubSeq(avail, 1, o.n),
                   !.returned = (g.curr_read + o.n >= g.buf_size),
                   !.saw = "data"]
    ELSE IF o.n = 0
    THEN [g EXCEPT !.exit = TRUE, !.returned = TRUE, !.saw = "eof"]
    ELSE IF o.errno = EAGAIN
    THEN [g EXCEPT !.returned = TRUE, !.saw = "again"]
    ELSE [g EXCEPT !.exit = TRUE, !.returned = TRUE,
                   !.saw = IF o.errno = EINTR THEN "intr" ELSE "error"]

\* one pass of greedy_read's loop on g with recv's outcome o; saw is what
\* the latest recv reported
greedy_read_pass(g, o, avail) ==
    IF o.n > 0
    THEN [g EXCEPT !.curr_read = @ + o.n, !.data = @ \o SubSeq(avail, 1, o.n),
                   !.returned = (g.curr_read + o.n >= g.buf_size),
                   !.saw = "data"]
    ELSE IF o.n = 0
    THEN [g EXCEPT !.exit = TRUE, !.returned = TRUE, !.saw = "eof"]
    ELSE IF o.n = -1 /\ o.errno = EINTR
    THEN [g EXCEPT !.saw = "intr", !.intr = TRUE]
    ELSE IF o.n = -1 /\ o.errno = EAGAIN
    THEN [g EXCEPT !.returned = TRUE, !.saw = "again"]
    ELSE [g EXCEPT !.exit = TRUE, !.returned = TRUE, !.saw = "error"]

\* greedy_read(fd, buf, buf_size, &exit) at entry; the caller's flag is false
greedy_read_entry(buf_size) ==
    [buf_size |-> buf_size, curr_read |-> 0, data |-> <<>>, exit |-> FALSE,
     returned |-> (buf_size = 0), saw |-> "none", intr |-> FALSE]

\* a process that sends msgs with send_message, one after the other, or one
\* that calls greedy_read on a socket some of the peer's bytes have reached
InitIO ==
    /\ CodecIdle
    /\ mode = "io"
    /\ storage_buf = <<>>
    /\ storage_size = 0
    /\ extracted = <<>>
    /\ last = NoCall
    /\ wire = <<>>
    /\ server = NoProc
    /\ kernel = NoProc
    /\ to_server = <<>>
    /\ to_client = <<>>
    /\ \/ /\ msgs \in [1..MaxMsgs -> {<<97>>, <<97, 98>>, HEADER_SPLIT}]
          /\ sock = <<>>
          /\ client = [pc |-> "send_message", sent |-> 0,
                       w |-> robust_write_entry(Envelope(msgs[1]),
                                                Len(Envelope(msgs[1])))]
       \/ /\ msgs = <<>>
          /\ \E n \in 0..Len(PeerBytes), size \in 1..MaxRead, closed \in BOOLEAN :
               /\ sock = SubSeq(PeerBytes, 1, n)
               /\ client = [pc |-> "greedy_read", closed |-> closed,
                            avail |-> SubSeq(PeerBytes, 1, n),
                            g |-> greedy_read_entry(size)]

\* one send of robust_write inside send_message; when robust_write returns,
\* the assert lets send_message return or aborts the process
IoSend ==
    /\ mode = "io"
    /\ client.pc = "send_message"
    /\ \E o \in SendOutcomes(client.w.to_write - client.w.curr_write) :
         \E w \in { robust_write_pass(client.w, o) } :
           /\ wire' = wire \o SubSeq(w.out, Len(client.w.out) + 1, Len(w.out))
           /\ client' =
                IF ~w.returned THEN [client EXCEPT !.w = w]
                ELSE IF ~AssertHolds(w.ret, Len(w.buf))
                THEN [client EXCEPT !.w = w, !.pc = "aborted"]
                ELSE IF client.sent + 1 = Len(msgs)
                THEN [client EXCEPT !.w = w, !.pc = "done", !.sent = @ + 1]
                ELSE [client EXCEPT
                        !.sent = @ + 1,
                        !.w = robust_write_entry(
                                  Envelope(msgs[client.sent + 2]),
                                  Len(Envelope(msgs[client.sent + 2])))]
    /\ UNCHANGED <<mode, msgs, storage_buf, storage_size, extracted, last, sock,
                   codecVars, server, kernel, to_server, to_client>>

\* one recv of greedy_read
IoRecv ==
    /\ mode = "io"
    /\ client.pc = "greedy_read"
    /\ ~client.g.returned
    /\ \E o \in RecvOutcomes(sock, client.g.buf_size - client.g.curr_read,
                             client.closed) :
         /\ client' = [client EXCEPT !.g = greedy_read_pass(client.g, o, sock)]
         /\ sock' = IF o.n > 0 THEN SubSeq(sock, o.n + 1, Len(sock)) ELSE sock
    /\ UNCHANGED <<mode, msgs, storage_buf, storage_size, extracted, last, wire,
                   codecVars, server, kernel, to_server, to_client>>

NextIO == IoSend \/ IoRecv

SpecIO == InitIO /\ [][NextIO]_vars

\* C23: robust_write returns fewer than to_write bytes only after a send
\* failed with an errno that is neither a signal interrupt nor would-block;
\* after those two it tries again.
C23_TransientRetried ==
    (mode = "io" /\ client.pc \in {"send_message", "aborted", "done"}
       /\ client.w.returned /\ client.w.ret < client.w.to_write)
      => client.w.errno \notin {EINTR, EAGAIN}

\* C24: every send_message that returned wrote its whole envelope, and the
\* bytes in the connection are never a cut envelope with more bytes after
\* it: they are a prefix of the envelopes of msgs, which holds those of the
\* calls that returned.
C24_NoShortSuccess ==
    (mode = "io" /\ client.pc \in {"send_message", "aborted", "done"})
      => /\ Len(wire) <= Len(Envelopes(msgs))
         /\ wire = SubSeq(Envelopes(msgs), 1, Len(wire))
         /\ Len(wire) >= Len(Envelopes(SubSeq(msgs, 1, client.sent)))

\* the first envelope went out in pieces and send_message returned; a send
\* of the second failed after part of it and the process stopped there
C24_Witness ==
    /\ mode = "io"
    /\ client.pc = "aborted"
    /\ client.sent = 1
    /\ client.w.errno = ECONNRESET
    /\ Len(wire) > Len(Envelope(msgs[1]))
    /\ Len(wire) < Len(Envelopes(msgs))

\* C25: greedy_read returns the bytes it accumulated, at most buf_size and in
\* the order they arrived; the exit flag is set exactly when a recv returned
\* 0 or failed with an errno other than EINTR and EAGAIN; a signal interrupt
\* keeps what was read and lets the loop go on. Without an error the result
\* is the one of a single read of the queue.
C25_GreedyRead ==
    (mode = "io" /\ client.pc = "greedy_read")
      => /\ client.g.curr_read = Len(client.g.data)
         /\ client.g.curr_read <= client.g.buf_size
         /\ client.g.data \o sock = client.avail
         /\ client.g.exit <=> (client.g.returned /\ client.g.saw \in {"eof", "error"})
         /\ client.g.saw = "intr" => ~client.g.returned
         /\ (client.g.returned /\ client.g.saw = "again") => ~client.g.exit
         /\ (client.g.returned /\ client.g.saw # "error")
              => /\ client.g.curr_read
                      = greedy_read(client.avail, client.g.buf_size,
                                    client.closed).read
                 /\ client.g.exit
                      = greedy_read(client.avail, client.g.buf_size,
                                    client.closed).exit

\* greedy_read was interrupted, went on, and returned two bytes on EAGAIN
C25_Witness ==
    /\ mode = "io"
    /\ client.pc = "greedy_read"
    /\ client.g.returned
    /\ client.g.intr
    /\ client.g.saw = "again"
    /\ ~client.g.exit
    /\ client.g.curr_read = 2
    /\ client.g.buf_size = 3

----------------------------------------------------------------------------
(* The descriptors a worker holds for its client                          *)

\* the descriptors of k that open gave the worker for a path of the client
ChildHandles(k) == { fd \in k.fds : k.of[fd] # <<>> }

\* the system call of this step, if the worker made one on descriptor fd
CallOn(fd) ==
    IF Len(server'.exec) = Len(server.exec) + 1
       /\ server'.exec[Len(server'.exec)].fd = fd
    THEN { server'.exec[Len(server'.exec)] }
    ELSE {}

----------------------------------------------------------------------------
(* The integer slots at full width.  A C long / ssize_t / off_t is four     *)
(* limbs of 16 bits, lowest first, in two's complement; an int is the two  *)
(* low limbs.                                                              *)

Limb == 2 ^ 16
Half == 2 ^ 15

WordZero == <<0, 0, 0, 0>>

\* w + c for 0 <= c < Limb, modulo 2^64
RECURSIVE WordAdd(_, _, _)
WordAdd(w, i, c) ==
    IF i > Len(w) THEN w
    ELSE WordAdd([w EXCEPT ![i] = (w[i] + c) % Limb], i + 1, (w[i] + c) \div Limb)

\* -w modulo 2^64
WordNeg(w) == WordAdd([i \in 1..Len(w) |-> Limb - 1 - w[i]], 1, 1)

\* the sign bit of w
WordIsNeg(w) == w[Len(w)] >= Half

\* the long with the value of n, an integer of the model
WordOf(n) ==
    IF n < 0 THEN WordNeg(<<(0 - n) % Limb, (0 - n) \div Limb, 0, 0>>)
    ELSE <<n % Limb, n \div Limb, 0, 0>>

\* w * 10 + d as an unsigned number: the low 64 bits, and what went over
RECURSIVE WordMul10(_, _, _)
WordMul10(w, i, c) ==
    IF i > Len(w) THEN [word |-> w, over |-> c]
    ELSE WordMul10([w EXCEPT ![i] = (w[i] * 10 + c) % Limb], i + 1,
                   (w[i] * 10 + c) \div Limb)

\* unsigned w divided by 10, from the high limb i down with remainder r
RECURSIVE WordDiv10(_, _, _)
WordDiv10(w, i, r) ==
    IF i = 0 THEN [quot |-> w, rem |-> r]
    ELSE WordDiv10([w EXCEPT ![i] = (r * Limb + w[i]) \div 10], i - 1,
                   (r * Limb + w[i]) % 10)

\* the decimal digits of unsigned w
RECURSIVE WordDigits(_)
WordDigits(w) ==
    IF WordDiv10(w, Len(w), 0).quot = WordZero
    THEN <<48 + WordDiv10(w, Len(w), 0).rem>>
    ELSE WordDigits(WordDiv10(w, Len(w), 0).quot)
           \o <<48 + WordDiv10(w, Len(w), 0).rem>>

\* sprintf(integral_buf, "%ld", val) of pack_integral and marshall_integral
Ltoa(w) == IF WordIsNeg(w) THEN <<45>> \o WordDigits(WordNeg(w)) ELSE WordDigits(w)

LONG_MAX == <<Limb - 1, Limb - 1, Limb - 1, Half - 1>>
LONG_MIN == <<0, 0, 0, Half>>

INT_MAX == <<Limb - 1, Half - 1, 0, 0>>
INT_MIN == <<0, Half, Limb - 1, Limb - 1>>

\* strtol's loop over the digits of s from i: the magnitude, and whether it
\* went past 64 bits
RECURSIVE WordScan(_, _, _, _)
WordScan(s, i, acc, over) ==
    IF i <= Len(s) /\ IsDigit(s[i])
    THEN WordScan(s, i + 1, WordMul10(acc, 1, s[i] - 48).word,
                  over \/ WordMul10(acc, 1, s[i] - 48).over > 0)
    ELSE [word |-> acc, over |-> over]

\* strtol(s, NULL, 10): white space, an optional sign, digits; LONG_MAX or
\* LONG_MIN when the value is out of range
strtol(s) ==
    LET t == Slice(s, 1, CStrEnd(s, 1) - 1)
        i == SkipSpace(t, 1)
        neg == i <= Len(t) /\ t[i] = 45
        j == IF i <= Len(t) /\ (t[i] = 45 \/ t[i] = 43) THEN i + 1 ELSE i
        m == WordScan(t, j, WordZero, FALSE)
    IN  IF neg
        THEN IF m.over \/ (WordIsNeg(m.word) /\ m.word # LONG_MIN) THEN LONG_MIN
             ELSE WordNeg(m.word)
        ELSE IF m.over \/ WordIsNeg(m.word) THEN LONG_MAX ELSE m.word

\* atol(s)
atol(s) == { strtol(s) }

\* the int i as a long: sign extension
WordOfInt(i) ==
    <<i[1], i[2], IF i[2] >= Half THEN Limb - 1 ELSE 0,
      IF i[2] >= Half THEN Limb - 1 ELSE 0>>

\* atoi(s), the conversion of strtol's result to int: the value when it is an
\* int; otherwise the behaviour is undefined, and the C library either keeps
\* the low 32 bits or gives INT_MAX / INT_MIN
atoi(s) ==
    IF WordOfInt(strtol(s)) = strtol(s) THEN { strtol(s) }
    ELSE { WordOfInt(strtol(s)),
           IF WordIsNeg(strtol(s)) THEN INT_MIN ELSE INT_MAX }

\* the integer slots: who fills them and how the receiver reads them
IntSlots ==
    { [slot |-> "handle", in |-> "request", reader |-> "atoi"],
      [slot |-> "flags", in |-> "request", reader |-> "atoi"],
      [slot |-> "mode", in |-> "request", reader |-> "atoi"],
      [slot |-> "count", in |-> "request", reader |-> "atol"],
      [slot |-> "offset", in |-> "request", reader |-> "atol"],
      [slot |-> "whence", in |-> "request", reader |-> "atoi"],
      [slot |-> "nbytes", in |-> "request", reader |-> "atol"],
      [slot |-> "basep", in |-> "request", reader |-> "atol"],
      [slot |-> "open", in |-> "response", reader |-> "atoi"],
      [slot |-> "close", in |-> "response", reader |-> "atoi"],
      [slot |-> "read", in |-> "response", reader |-> "atol"],
      [slot |-> "write", in |-> "response", reader |-> "atol"],
      [slot |-> "lseek", in |-> "response", reader |-> "atol"],
      [slot |-> "stat", in |-> "response", reader |-> "atoi"],
      [slot |-> "unlink", in |-> "response", reader |-> "atoi"],
      [slot |-> "getdirentries", in |-> "response", reader |-> "atol"],
      [slot |-> "basep", in |-> "response", reader |-> "atol"] }

\* values at the edges of int and of long, and small ones
IntSamples ==
    { WordOf(n) : n \in {0, 1, -1, 10, -10, MaxCount, OFFSET, OFFSET + 3} }
    \cup { INT_MAX, INT_MIN, <<0, Half, 0, 0>>, WordNeg(<<1, Half, 0, 0>>),
           <<Limb - 1, Limb - 1, 0, 0>>, <<0, 0, 1, 0>>, LONG_MAX, LONG_MIN,
           WordNeg(LONG_MAX) }

InitInt ==
    /\ FrameIdle
    /\ SystemIdle
    /\ mode = "int"
    /\ stream = <<>>
    /\ decoded = NoObj
    /\ \E slot \in IntSlots, val \in IntSamples :
         obj = [kind |-> "int", slot |-> slot, val |-> val]

\* pack_integral / marshall_integral: the slot's text
PackInt ==
    /\ mode = "int"
    /\ stream = <<>>
    /\ stream' = Ltoa(obj.val)
    /\ UNCHANGED <<mode, sysVars, frameVars, obj, decoded>>

\* the receiver's atoi or atol of the slot
ParseInt ==
    /\ mode = "int"
    /\ stream # <<>>
    /\ decoded = NoObj
    /\ \E v \in (IF obj.slot.reader = "atoi" THEN atoi(stream \o NUL)
                 ELSE atol(stream \o NUL)) :
         decoded' = [kind |-> "int", val |-> v]
    /\ UNCHANGED <<mode, sysVars, frameVars, obj, stream>>

NextInt == PackInt \/ ParseInt

SpecInt == InitInt /\ [][NextInt]_vars

\* C28: an integer of the 64-bit signed range placed in an integer slot is
\* received as the same integer, whichever slot it is.
C28_IntegerRoundTrip ==
    (mode = "int" /\ decoded # NoObj) => decoded.val = obj.val

----------------------------------------------------------------------------
(* server.c main: build_server, then the accept loop, with the failures    *)
(* socket, bind, listen, accept and fork can have                          *)

EXIT_FAILURE == 1

\* the listening socket among a process's open sockets; the connection of
\* client i is socket i
listen_fd == 0

InitMain ==
    /\ FrameIdle
    /\ CodecIdle
    /\ mode = "main"
    /\ client = [i \in Clients |-> [pc |-> "down", fds |-> {}]]
    /\ server = [pc |-> "socket", listening |-> FALSE, status |-> 0,
                 backlog |-> <<>>, fds |-> {}]
    /\ kernel = NoProc
    /\ to_server = <<>>
    /\ to_client = <<>>

\* build_server: socket, bind, listen, one call a step; err(EXIT_FAILURE, ...)
\* when the call fails
BuildServer ==
    /\ mode = "main"
    /\ server.pc \in {"socket", "bind", "listen"}
    /\ \E ok \in BOOLEAN :
         server' =
           IF ~ok THEN [server EXCEPT !.pc = "exited", !.status = EXIT_FAILURE,
                                      !.fds = {}]
           ELSE CASE server.pc = "socket" ->
                       [server EXCEPT !.pc = "bind", !.fds = {listen_fd}]
                  [] server.pc = "bind" -> [server EXCEPT !.pc = "listen"]
                  [] server.pc = "listen" ->
                       [server EXCEPT !.pc = "accept", !.listening = TRUE]
    /\ UNCHANGED <<mode, frameVars, codecVars, client, kernel, to_server,
                   to_client>>

\* client i's _init connects: the connection waits in the listener's queue
MainConnect(i) ==
    /\ mode = "main"
    /\ server.listening
    /\ server.pc # "exited"
    /\ client[i].pc = "down"
    /\ client' = [client EXCEPT ![i].pc = "queued"]
    /\ server' = [server EXCEPT !.backlog = Append(@, i)]
    /\ UNCHANGED <<mode, frameVars, codecVars, kernel, to_server, to_client>>

\* main's loop from accept_client to fork, accept succeeding: fork gives a
\* child that has the parent's sockets, or fork fails and main breaks out
\* of the loop, closes the listener and returns 0
MainAccept ==
    /\ mode = "main"
    /\ server.pc = "accept"
    /\ server.backlog # <<>>
    /\ \E forked \in BOOLEAN : \E i \in { Head(server.backlog) } :
         IF forked
         THEN /\ client' = [client EXCEPT
                              ![i] = [pc |-> "child", fds |-> server.fds \cup {i}]]
              /\ server' = [server EXCEPT !.backlog = Tail(@), !.pc = "parent",
                                          !.fds = @ \cup {i}]
         ELSE /\ client' = client
              /\ server' = [server EXCEPT !.backlog = Tail(@), !.pc = "exited",
                                          !.status = 0, !.fds = {}]
    /\ UNCHANGED <<mode, frameVars, codecVars, kernel, to_server, to_client>>

\* the parent's branch with a close(client_fd) that is left out
MainParent_keeps ==
    /\ mode = "main"
    /\ server.pc = "parent"
    /\ server' = [server EXCEPT !.pc = "accept"]
    /\ client' = [i \in Clients |->
                    IF client[i].pc = "ended" THEN [client[i] EXCEPT !.pc = "reaped"]
                    ELSE client[i]]
    /\ UNCHANGED <<mode, frameVars, codecVars, kernel, to_server, to_client>>

\* the parent's branch after fork: close(client_fd), then waitpid(-1, ...,
\* WNOHANG) until it returns no child: the children that have ended are
\* reaped; then the next accept
MainParent ==
    /\ mode = "main"
    /\ server.pc = "parent"
    /\ server' = [server EXCEPT !.pc = "accept", !.fds = {listen_fd}]
    /\ client' = [i \in Clients |->
                    IF client[i].pc = "ended" THEN [client[i] EXCEPT !.pc = "reaped"]
                    ELSE client[i]]
    /\ UNCHANGED <<mode, frameVars, codecVars, kernel, to_server, to_client>>

\* the child's branch after fork: close(listen_fd), fcntl, then service
WorkerStart(i) ==
    /\ mode = "main"
    /\ client[i].pc = "child"
    /\ client' = [client EXCEPT ![i].pc = "served", ![i].fds = @ \ {listen_fd}]
    /\ UNCHANGED <<mode, frameVars, codecVars, server, kernel, to_server,
                   to_client>>

\* accept_client when accept fails (the connection was aborted, or no
\* descriptor is left): err(EXIT_FAILURE, ...)
MainAcceptFails ==
    /\ mode = "main"
    /\ server.pc = "accept"
    /\ server.backlog # <<>>
    /\ server' = [server EXCEPT !.pc = "exited", !.status = EXIT_FAILURE,
                                !.fds = {}]
    /\ UNCHANGED <<mode, frameVars, codecVars, client, kernel, to_server,
                   to_client>>

\* client i closes its connection: its worker leaves service and returns 0
MainClientCloses(i) ==
    /\ mode = "main"
    /\ client[i].pc = "served"
    /\ client' = [client EXCEPT ![i].pc = "ended", ![i].fds = {}]
    /\ UNCHANGED <<mode, frameVars, codecVars, server, kernel, to_server,
                   to_client>>

NextMain ==
    \/ BuildServer
    \/ MainAccept
    \/ MainParent
    \/ MainAcceptFails
    \/ \E i \in Clients : MainConnect(i) \/ WorkerStart(i) \/ MainClientCloses(i)

SpecMain == InitMain /\ [][NextMain]_vars

\* C29: when the server process has ended, its exit status is not zero and
\* build_server had not returned (listening): setting up the socket failed.  Once it
\* listens, neither an accept failure nor a fork failure nor a client that
\* closes makes main return or exit.
C29_OnlySetupEnds ==
    (mode = "main" /\ server.pc = "exited")
      => (server.status # 0 /\ ~server.listening)

----------------------------------------------------------------------------
(* One request, one system call, one response                              *)

\* the return_num each handler gives init_response
ReturnSlots(op) ==
    CASE op \in {OPEN_OP, CLOSE_OP, WRITE_OP, LSEEK_OP, UNLINK_OP, GETDIRTREE_OP} -> 1
      [] op \in {READ_OP, STAT_OP} -> 2
      [] op = GETDIRENTRIES_OP -> 3

\* response d, the only message of the drained bytes, answers call c of
\* opcode op with c's errno and op's number of return slots
OneResponse(d, c, op) ==
    /\ d.size = 0
    /\ Len(d.messages) = 1
    /\ \E r \in { deserialize_response(d.messages[1] \o NUL) } :
         /\ r.errno_num = c.errno
         /\ r.return_num = ReturnSlots(op)
         /\ Len(r.return_vals) = ReturnSlots(op)
    /\ c.op = op
    /\ c.ret >= 0 => c.errno = 0

\* C30: once the worker has read the request of the client's call, it has
\* made the system call of that opcode once and the connection holds one
\* response, whole, whose Errno is the errno the call left and whose
\* ReturnNum is the one of the opcode, whether the call failed or not.
C30_OneCallOneResponse ==
    (mode = "system" /\ server.pc = "serving" /\ client.pc = "waiting"
       /\ to_server = <<>>)
      => /\ Len(server.exec) = 1
         /\ OneResponse(DrainMessages(Mem(to_client), Len(to_client), <<>>),
                        server.exec[1], client.op)

\* stat of a path that does not exist: one call, and its response, with
\* ENOENT and two return slots, is what the connection holds
C30_Witness ==
    /\ mode = "system"
    /\ client.pc = "waiting"
    /\ client.op = STAT_OP
    /\ server.exec = <<[op |-> STAT_OP, fd |-> -1, ret |-> -1, errno |-> ENOENT]>>
    /\ to_client # <<>>
    /\ Len(DrainMessages(Mem(to_client), Len(to_client), <<>>).messages) = 1
    /\ deserialize_response(
           DrainMessages(Mem(to_client), Len(to_client), <<>>).messages[1]
             \o NUL).errno_num = ENOENT
    /\ deserialize_response(
           DrainMessages(Mem(to_client), Len(to_client), <<>>).messages[1]
             \o NUL).return_num = 2

----------------------------------------------------------------------------
(* What the stubs hand back to the caller                                  *)

\* the response the connection holds for the stub, when it holds one whole
\* response and nothing else
ResponseInFlight ==
    { deserialize_response(d.messages[1] \o NUL) :
        d \in { x \in { DrainMessages(Mem(to_client), Len(to_client), <<>>) } :
                  x.size = 0 /\ Len(x.messages) = 1 } }

\* the worker has answered the call the stub waits in
Answered ==
    /\ mode = "system"
    /\ client.pc = "waiting"
    /\ server.pc = "serving"
    /\ to_server = <<>>
    /\ Len(server.exec) = 1

\* the stub has returned from a remote call of operation op
Returned(op) ==
    /\ mode = "system"
    /\ client.pc = "returned"
    /\ client.op = op
    /\ client.local = <<>>
    /\ Len(server.exec) = 1

\* the bytes of the file behind native descriptor fd that end at its offset
JustRead(k, fd, n) ==
    IF k.pos[fd] < n THEN <<>>
    ELSE SubSeq(FileBytes(k.of[fd]), k.pos[fd] - n + 1, k.pos[fd])

\* C31: a remote read whose system call returned n >= 0 has 0 <= n <= count;
\* its response carries n in the first slot and exactly n bytes in the
\* second; the stub returns n with those n bytes in buf[0..n) and the rest
\* of buf as it was; on a file the bytes are the ones before the
\* descriptor's offset, which the read moved by n, and n is short of count
\* only at the end of the file.
C31_ReadReturnsBytes ==
    /\ (Answered /\ client.op = READ_OP /\ server.exec[1].ret >= 0)
         => /\ server.exec[1].ret <= Len(client.buf)
            /\ \A r \in ResponseInFlight :
                 /\ Atoi(r.return_vals[1] \o NUL) = server.exec[1].ret
                 /\ r.return_sizes[2] = server.exec[1].ret
                 /\ Len(r.return_vals[2]) = server.exec[1].ret
            /\ ResponseInFlight # {}
    /\ (Returned(READ_OP) /\ client.ret >= 0)
         => /\ client.ret = server.exec[1].ret
            /\ client.ret <= Len(client.buf)
            /\ \A i \in (client.ret + 1)..Len(client.buf) : client.buf[i] = 120
            /\ kernel.of[server.exec[1].fd] # <<>>
                 => /\ SubSeq(client.buf, 1, client.ret)
                         = JustRead(kernel, server.exec[1].fd, client.ret)
                    /\ \/ client.ret = Len(client.buf)
                       \/ kernel.pos[server.exec[1].fd] >= FileSize

\* a read of MaxCount bytes returned the last byte of the file, after an
\* earlier call had left the offset one byte before the end
C31_Witness ==
    /\ Returned(READ_OP)
    /\ client.ret = 1
    /\ client.buf = <<10>> \o [i \in 1..(MaxCount - 1) |-> 120]
    /\ kernel.of[server.exec[1].fd] = <<97>>
    /\ kernel.pos[server.exec[1].fd] = FileSize

\* C32: when a remote getdirentries succeeded, the stub returns the integer
\* of the response's first slot, has copied the entries of the second slot
\* into buf, and has set *basep to the integer of the third slot.
C32_GetdirentriesResult ==
    [][(Answered /\ client.op = GETDIRENTRIES_OP /\ server.exec[1].ret >= 0
          /\ client'.pc = "returned")
         => \A r \in ResponseInFlight :
              /\ client'.ret = Atoi(r.return_vals[1] \o NUL)
              /\ client'.buf = Store(client.buf, 0, r.return_vals[2])
              /\ client'.basep = Atoi(r.return_vals[3] \o NUL)]_vars

C40_FailureLeavesOutputs ==
    [][(mode = "system" /\ client.pc = "waiting" /\ client'.pc = "returned"
          /\ client.op \in {READ_OP, STAT_OP, GETDIRENTRIES_OP}
          /\ client'.ret < 0)
         => (client'.buf = client.buf /\ client'.basep = client.basep)]_vars

\* the same for read and getdirentries alone
ReadFailureLeavesOutputs ==
    [][(mode = "system" /\ client.pc = "waiting" /\ client'.pc = "returned"
          /\ client.op \in {READ_OP, GETDIRENTRIES_OP}
          /\ client'.ret < 0)
         => (client'.buf = client.buf /\ client'.basep = client.basep)]_vars

\* C38: whenever a stub call can start (the client is between two calls),
\* neither the connection nor the client's session buffer holds response
\* bytes that wait_response has not consumed, so the memset of send_request
\* and the reset at the start of wait_response discard nothing.
C38_NothingToDiscard ==
    CanCall => (to_client = <<>> /\ client.storage_size = 0)

\* a third call can start after two remote calls have taken their responses
C38_Witness ==
    /\ CanCall
    /\ client.pc = "returned"
    /\ client.local = <<>>
    /\ client.calls = 2
    /\ client.consumed = 2
    /\ Len(client.wrote) > 0

----------------------------------------------------------------------------
(* Slot positions, stub against handler                                    *)

\* request->params[i] a handler reads, counted from 0, by opcode
ParamsRead(op) ==
    CASE op \in {OPEN_OP, WRITE_OP, LSEEK_OP, GETDIRENTRIES_OP} -> {0, 1, 2}
      [] op = READ_OP -> {0, 2}
      [] op \in {CLOSE_OP, STAT_OP, UNLINK_OP, GETDIRTREE_OP} -> {0}

\* response->return_vals[i] the stub of op reads from response r, counted
\* from 0
ReturnsRead(op, r) ==
    CASE op \in {OPEN_OP, CLOSE_OP, WRITE_OP, LSEEK_OP, UNLINK_OP} -> {0}
      [] op \in {READ_OP, GETDIRENTRIES_OP} ->
           IF Atoi(r.return_vals[1]) < 0 THEN {0} ELSE {0, 1}
      [] op = STAT_OP -> {0, 1}
      [] op = GETDIRTREE_OP -> IF r.errno_num = 0 THEN {0} ELSE {}

\* the request send_request wrote for the call the stub waits in
RequestWritten ==
    { deserialize_request(d.messages[1] \o NUL) :
        d \in { x \in { DrainMessages(Mem(client.wrote), Len(client.wrote), <<>>) } :
                  x.size = 0 /\ Len(x.messages) = 1 } }

\* request q and response r of one call agree on the slots
SlotsAgree(q, r) ==
    /\ ~q.fault
    /\ ~r.fault
    /\ q.command_op = client.op
    /\ \A i \in ParamsRead(q.command_op) : i + 1 \in 1..q.param_num
    /\ Len(q.params) = q.param_num
    /\ \A i \in ReturnsRead(q.command_op, r) : i + 1 \in 1..r.return_num
    /\ Len(r.return_vals) = r.return_num
    /\ q.command_op = WRITE_OP
         => (Atoi(q.params[3]) = q.param_sizes[2]
               /\ Len(q.params[2]) = q.param_sizes[2])

\* C39: when the worker has answered a call, every parameter slot its
\* handler read is a slot of the request the stub sent, every return slot
\* the stub reads is a slot of the response, failed or not, and the count
\* of a write request is the length of its data slot.
C39_SlotsAgree ==
    Answered => /\ RequestWritten # {}
                /\ ResponseInFlight # {}
                /\ \A q \in RequestWritten : \A r \in ResponseInFlight :
                     SlotsAgree(q, r)

\* a write of MaxCount bytes has been answered
C39_Witness ==
    /\ Answered
    /\ client.op = WRITE_OP
    /\ \E q \in RequestWritten : q.param_sizes[2] = MaxCount
    /\ \E r \in ResponseInFlight : Atoi(r.return_vals[1]) = MaxCount

\* a read that failed has been answered with both of its slots
ReadFailureAnswered ==
    /\ Answered
    /\ client.op = READ_OP
    /\ \E r \in ResponseInFlight : Atoi(r.return_vals[1]) < 0 /\ r.return_num = 2

----------------------------------------------------------------------------
(* The receive buffer against the bytes read                               *)

\* the bytes the receive loop has read of the envelope the connection carries
BytesRead ==
    SubSeq(Envelope(msgs[1]), 1, Len(Envelope(msgs[1])) - Len(wire) - Len(sock))

\* C37: in a receive loop the first storage_size bytes of the buffer are the
\* bytes read from the connection since the last extracted message, in
\* order, and storage_size is at most STORAGE_SIZE, also after the read that
\* fills the buffer to capacity.
C37_NoByteLost ==
    mode \in {"service", "wait_response"} =>
      /\ storage_size <= STORAGE_SIZE
      /\ SubSeq(storage_buf, 1, storage_size)
           = IF extracted = <<>> THEN BytesRead ELSE <<>>

\* the same for envelopes shorter than the buffer
ShorterNoByteLost ==
    (mode \in {"service", "wait_response"}
       /\ Len(Envelope(msgs[1])) < STORAGE_SIZE) =>
      /\ storage_size <= STORAGE_SIZE
      /\ SubSeq(storage_buf, 1, storage_size)
           = IF extracted = <<>> THEN BytesRead ELSE <<>>

\* C36: wait_response is never left spinning with nothing to come: when the
\* worker has written its whole response and the connection has delivered
\* every byte of it to the client, wait_response has returned the message,
\* for every response up to the capacity of the buffer.
C36_WaitResponseReturns ==
    (mode = "wait_response" /\ wire = <<>> /\ sock = <<>>)
      => (last.found /\ extracted = msgs)

\* main's accept loop with the scheduling the server's own processes have:
\* the parent and the workers keep running; no client has to connect
SpecMainFair ==
    /\ SpecMain
    /\ WF_vars(BuildServer)
    /\ WF_vars(MainAccept)
    /\ WF_vars(MainParent)
    /\ \A i \in Clients : WF_vars(WorkerStart(i))

\* the processes that have socket s open
Holders(s) ==
    { p \in Clients \cup {0} :
        s \in (IF p = 0 THEN server.fds ELSE client[p].fds) }

\* C34: whenever the parent is at accept its only open socket is the
\* listener; a worker that serves has its connection open and nothing else;
\* and at each accept the connection of every living worker is open in that
\* worker alone.
C34_SocketOwnership ==
    mode = "main" =>
      /\ server.pc = "accept" => server.fds = {listen_fd}
      /\ \A i \in Clients :
           /\ client[i].pc = "served" => client[i].fds = {i}
           /\ (server.pc = "accept" /\ client[i].pc \in {"child", "served"})
                => Holders(i) = {i}
           /\ client[i].pc = "served" => Holders(listen_fd) \subseteq
                                           {0} \cup { j \in Clients : client[j].pc = "child" }

\* two workers serve and the parent is back at accept
C34_Witness ==
    /\ mode = "main"
    /\ server.pc = "accept"
    /\ client[1].pc = "served"
    /\ client[2].pc = "served"
    /\ Holders(1) = {1}
    /\ Holders(2) = {2}
    /\ Holders(listen_fd) = {0}

\* C35: a worker that has ended is eventually reaped by the parent, as long
\* as the parent runs.
C35_WorkersReaped ==
    \A i \in Clients :
      (mode = "main" /\ client[i].pc = "ended")
        ~> (client[i].pc = "reaped" \/ server.pc = "exited")

====
